---------------------------- MODULE Spec2Model ----------------------------
(***************************************************************************)
(* Model of the whitespace formatting engine of whitespace-format-rust:    *)
(* src/src/core.rs (modify_content and its helpers) writing through the    *)
(* Writer of src/src/writer.rs.                                            *)
(*                                                                         *)
(* A byte is its ASCII code.  Positions and the index i are 0-based as in  *)
(* the source; a TLA+ sequence is 1-based, so the source's input_data[i]   *)
(* is input_data[i + 1] here.                                              *)
(*                                                                         *)
(* The local variables of modify_content are the fields of one record      *)
(* (the variable "engine" of the state machine).  Every piece of the       *)
(* function is an operator from such a record to the next one; the actions *)
(* apply these operators one loop iteration or one post-processing step at *)
(* a time, and ModifyContent composes the same operators into the whole    *)
(* function.                                                               *)
(***************************************************************************)
EXTENDS Integers, Sequences, FiniteSets, TLC

VARIABLES
    input_data,     \* the bytes handed to modify_content
    options,        \* the Options of the run
    pc,             \* where modify_content stands
    run,            \* 1: the first application; 2: applied to its own output
    engine,         \* the locals of modify_content, the writer among them
    \* The run of the program over files (process_file and its caller):
    check_only,     \* the check_only flag of the command line
    file_system,    \* the files: their bytes, whether they can be read/written
    remaining,      \* the paths that are still to be processed, in order
    current,        \* <<path>> of the file in process_file, <<>> outside it
    returned,       \* per path: <<changes>> once process_file returned them
    writes,         \* the successful fs::write calls so far, in order
    exit_code,      \* <<code>> once the process has exited, <<>> before
    \* The search for files (discover_files):
    follow_symlinks,\* the follow_symlinks flag of the command line
    tree,           \* the file system: what each path is
    discovery       \* the locals of discover_files

\* The variables of the run over files.
file_vars ==
    <<check_only, file_system, remaining, current, returned, writes, exit_code>>

\* The variables of the search for files.
discover_vars == <<follow_symlinks, tree, discovery>>

vars == <<input_data, options, pc, run, engine, file_vars, discover_vars>>

-----------------------------------------------------------------------------
(* Bytes                                                                   *)

CARRIAGE_RETURN == 13
LINE_FEED == 10
SPACE == 32
TAB == 9
VERTICAL_TAB == 11
FORM_FEED == 12
\* A byte that is none of the six above: every such byte takes the same
\* branch of the scanner.
LETTER == 97
\* Another such byte, to tell two of them apart.
OTHER_LETTER == 98

-----------------------------------------------------------------------------
(* Bounds of the model                                                     *)

\* Longest input of the first application, over all seven bytes.
MaxLen == 3
\* Longest input over the four bytes CR, LF, space and letter alone.
MaxPlainLen == 4
\* The positive tab policy that is tried (spaces per tab).
TabSpaces == 2

-----------------------------------------------------------------------------
(* NewLineMarker                                                           *)

NewLineMarker == {"Linux", "MacOs", "Windows"}

to_bytes(marker) ==
    CASE marker = "Linux" -> <<LINE_FEED>>
      [] marker = "MacOs" -> <<CARRIAGE_RETURN>>
      [] marker = "Windows" -> <<CARRIAGE_RETURN, LINE_FEED>>

-----------------------------------------------------------------------------
(* Writer: Vec<u8> and CountingWriter                                      *)
(*                                                                         *)
(* A writer is a record with its kind; a Vec holds its bytes, a            *)
(* CountingWriter its position and maximum_position.  history is the       *)
(* sequence of the operations called on the writer so far: the operation,  *)
(* its argument, and position() when it returned.                          *)

Max(a, b) == IF a >= b THEN a ELSE b

\* Vec::new()
VecNew == [kind |-> "Vec", bytes |-> <<>>, history |-> <<>>]

\* CountingWriter::new()
CountingWriterNew ==
    [kind |-> "CountingWriter", position |-> 0, maximum_position |-> 0,
     history |-> <<>>]

WriterPosition(w) == IF w.kind = "Vec" THEN Len(w.bytes) ELSE w.position

\* w, with the operation op(arg) that has just returned added to its history.
Called(w, op, arg) ==
    [w EXCEPT !.history =
        Append(@, [op |-> op, arg |-> arg, position |-> WriterPosition(w)])]

WriterWrite(w, byte) ==
    Called(IF w.kind = "Vec"
           THEN [w EXCEPT !.bytes = Append(@, byte)]
           ELSE [w EXCEPT !.position = @ + 1,
                          !.maximum_position = Max(@, w.position + 1)],
           "write", <<byte>>)

WriterWriteBytes(w, bytes) ==
    Called(IF w.kind = "Vec"
           THEN [w EXCEPT !.bytes = @ \o bytes]
           ELSE [w EXCEPT !.position = @ + Len(bytes),
                          !.maximum_position = Max(@, w.position + Len(bytes))],
           "write_bytes", bytes)

\* A CountingWriter whose rewind takes previous_position as its
\* maximum_position too.
WriterRewindMaximumFollows(w, previous_position) ==
    Called(IF w.kind = "Vec"
           THEN IF previous_position >= Len(w.bytes) THEN w
                ELSE [w EXCEPT !.bytes = SubSeq(@, 1, previous_position)]
           ELSE [w EXCEPT !.position = previous_position,
                          !.maximum_position = previous_position],
           "rewind", <<previous_position>>)

\* A CountingWriter whose rewind keeps its position.
WriterRewindCountingKeepsPosition(w, previous_position) ==
    Called(IF w.kind = "Vec"
           THEN IF previous_position >= Len(w.bytes) THEN w
                ELSE [w EXCEPT !.bytes = SubSeq(@, 1, previous_position)]
           ELSE w,
           "rewind", <<previous_position>>)

\* Vec::truncate keeps the vector when previous_position >= len; the
\* CountingWriter takes previous_position as its position, whatever it is.
WriterRewind(w, previous_position) ==
    Called(IF w.kind = "Vec"
           THEN IF previous_position >= Len(w.bytes) THEN w
                ELSE [w EXCEPT !.bytes = SubSeq(@, 1, previous_position)]
           ELSE [w EXCEPT !.position = previous_position,
                          !.maximum_position = Max(@, previous_position)],
           "rewind", <<previous_position>>)

-----------------------------------------------------------------------------
(* Change                                                                  *)

\* Change::new(line_number, change_type); arg holds the payload of the
\* change type: <<from, to>> of ReplacedNewLineMarker, <<byte>> of the two
\* non-standard whitespace changes, <<>> otherwise.
Change(line_number, change_type, arg) ==
    [line_number |-> line_number, change_type |-> change_type, arg |-> arg]

-----------------------------------------------------------------------------
(* is_file_whitespace and find_most_common_new_line_marker                 *)

IsWhitespaceByte(char) ==
    char \in {CARRIAGE_RETURN, LINE_FEED, SPACE, TAB, VERTICAL_TAB, FORM_FEED}

is_file_whitespace(input) ==
    \A k \in 1..Len(input) : IsWhitespaceByte(input[k])

\* A variant of the counting loop that does not skip the line feed of a
\* CR LF pair, and so counts it again as a Linux marker.
RECURSIVE CountNewLineMarkersNoSkip(_, _, _)
CountNewLineMarkersNoSkip(input, i, c) ==
    IF ~(i < Len(input)) THEN c
    ELSE IF input[i + 1] = CARRIAGE_RETURN
         THEN IF i < Len(input) - 1 /\ input[i + 2] = LINE_FEED
              THEN CountNewLineMarkersNoSkip(input, i + 1,
                                       [c EXCEPT !.windows_count = @ + 1])
              ELSE CountNewLineMarkersNoSkip(input, i + 1,
                                       [c EXCEPT !.macos_count = @ + 1])
         ELSE IF input[i + 1] = LINE_FEED
              THEN CountNewLineMarkersNoSkip(input, i + 1,
                                       [c EXCEPT !.linux_count = @ + 1])
              ELSE CountNewLineMarkersNoSkip(input, i + 1, c)

\* The counting loop; c holds linux_count, macos_count and windows_count.
RECURSIVE CountNewLineMarkers(_, _, _)
CountNewLineMarkers(input, i, c) ==
    IF ~(i < Len(input)) THEN c
    ELSE IF input[i + 1] = CARRIAGE_RETURN
         THEN IF i < Len(input) - 1 /\ input[i + 2] = LINE_FEED
              THEN CountNewLineMarkers(input, i + 2,
                                       [c EXCEPT !.windows_count = @ + 1])
              ELSE CountNewLineMarkers(input, i + 1,
                                       [c EXCEPT !.macos_count = @ + 1])
         ELSE IF input[i + 1] = LINE_FEED
              THEN CountNewLineMarkers(input, i + 1,
                                       [c EXCEPT !.linux_count = @ + 1])
              ELSE CountNewLineMarkers(input, i + 1, c)

\* A variant of the choice that lets MacOs win a tie with Windows.
MostCommonOfMacOsOnTie(c) ==
    IF c.macos_count >= c.windows_count /\ c.macos_count > c.linux_count
    THEN "MacOs"
    ELSE IF c.windows_count > c.linux_count THEN "Windows" ELSE "Linux"

\* A variant of the choice that lets Windows win a tie with Linux.
MostCommonOfWindowsOnTie(c) ==
    IF c.macos_count > c.windows_count /\ c.macos_count > c.linux_count
    THEN "MacOs"
    ELSE IF c.windows_count >= c.linux_count THEN "Windows" ELSE "Linux"

\* The choice among the three counts.
MostCommonOf(c) ==
    IF c.macos_count > c.windows_count /\ c.macos_count > c.linux_count
    THEN "MacOs"
    ELSE IF c.windows_count > c.linux_count THEN "Windows" ELSE "Linux"

find_most_common_new_line_marker(input) ==
    MostCommonOf(CountNewLineMarkers(input, 0,
        [linux_count |-> 0, macos_count |-> 0, windows_count |-> 0]))

-----------------------------------------------------------------------------
(* modify_content                                                          *)

ResolveNewLineMarker(input, opts) ==
    IF opts.new_line_marker = "Auto"
    THEN find_most_common_new_line_marker(input)
    ELSE opts.new_line_marker

\* The locals of modify_content as they are declared before the loop, with
\* the writer it was called with.
LocalsWith(marker, writer) ==
    [ output_new_line_marker |-> marker,
      writer |-> writer,
      i |-> 0,
      changes |-> <<>>,
      line_number |-> 1,
      last_end_of_line_including_eol_marker |-> 0,
      last_non_whitespace |-> 0,
      last_end_of_non_empty_line_excluding_eol_marker |-> 0,
      last_end_of_non_empty_line_including_eol_marker |-> 0,
      last_non_empty_line_number |-> 0,
      \* History of the calls writer.rewind(previous_position): the
      \* argument, writer.position() at the call, and the values of the four
      \* position locals at the call.
      rewinds |-> <<>> ]

\* The locals of a call with a new Vec.
Locals(marker) == LocalsWith(marker, VecNew)

\* writer.rewind(previous_position), called with the locals s.
Rewind(s, previous_position) ==
    [s EXCEPT
       !.writer = WriterRewind(@, previous_position),
       !.rewinds = Append(@,
           [previous_position |-> previous_position,
            position |-> WriterPosition(s.writer),
            checkpoints |->
                {s.last_non_whitespace,
                 s.last_end_of_line_including_eol_marker,
                 s.last_end_of_non_empty_line_excluding_eol_marker,
                 s.last_end_of_non_empty_line_including_eol_marker}])]

\* A variant that writes a line feed whatever the output marker is.
HandleEmptyFileLineFeed(s, opts) ==
    IF opts.normalize_empty_files = "OneLine"
    THEN [s EXCEPT
            !.writer = WriterWriteBytes(@, <<LINE_FEED>>),
            !.changes = <<Change(1, "ReplacedEmptyFileWithOneLine", <<>>)>>]
    ELSE s

\* A variant that leaves an empty file as it is.
HandleEmptyFileKept(s, opts) == s

\* "Handle empty file."
HandleEmptyFile(s, opts) ==
    IF opts.normalize_empty_files = "OneLine"
    THEN [s EXCEPT
            !.writer = WriterWriteBytes(@, to_bytes(s.output_new_line_marker)),
            !.changes = <<Change(1, "ReplacedEmptyFileWithOneLine", <<>>)>>]
    ELSE s

\* A variant that empties the file without recording the change.
HandleWhitespaceOnlyFileEmptyUnrecorded(s, input, opts) ==
    CASE opts.normalize_whitespace_only_files = "Empty" -> s
      [] opts.normalize_whitespace_only_files = "Ignore" ->
            [s EXCEPT !.writer = WriterWriteBytes(@, input)]
      [] opts.normalize_whitespace_only_files = "OneLine" ->
            [s EXCEPT
               !.writer = WriterWriteBytes(@, to_bytes(s.output_new_line_marker)),
               !.changes =
                   IF input = to_bytes(s.output_new_line_marker)
                   THEN <<>>
                   ELSE <<Change(1, "ReplacedWhiteSpaceOnlyFileWithOneLine",
                                 <<>>)>>]

\* A variant that records the replacement by one line whatever the input.
HandleWhitespaceOnlyFileAlwaysRecorded(s, input, opts) ==
    CASE opts.normalize_whitespace_only_files = "Empty" ->
            [s EXCEPT !.changes =
                <<Change(1, "ReplacedWhiteSpaceOnlyFileWithEmptyFile", <<>>)>>]
      [] opts.normalize_whitespace_only_files = "Ignore" ->
            [s EXCEPT !.writer = WriterWriteBytes(@, input)]
      [] opts.normalize_whitespace_only_files = "OneLine" ->
            [s EXCEPT
               !.writer = WriterWriteBytes(@, to_bytes(s.output_new_line_marker)),
               !.changes =
                   <<Change(1, "ReplacedWhiteSpaceOnlyFileWithOneLine", <<>>)>>]

\* "Handle non-empty file consisting of whitespace only."
HandleWhitespaceOnlyFile(s, input, opts) ==
    CASE opts.normalize_whitespace_only_files = "Empty" ->
            [s EXCEPT !.changes =
                <<Change(1, "ReplacedWhiteSpaceOnlyFileWithEmptyFile", <<>>)>>]
      [] opts.normalize_whitespace_only_files = "Ignore" ->
            [s EXCEPT !.writer = WriterWriteBytes(@, input)]
      [] opts.normalize_whitespace_only_files = "OneLine" ->
            [s EXCEPT
               !.writer = WriterWriteBytes(@, to_bytes(s.output_new_line_marker)),
               !.changes =
                   IF input = to_bytes(s.output_new_line_marker)
                   THEN <<>>
                   ELSE <<Change(1, "ReplacedWhiteSpaceOnlyFileWithOneLine",
                                 <<>>)>>]

\* A variant in which only the empty file returns early.
IsTrivialFileEmptyOnly(input) == input = <<>>

IsTrivialFile(input) == input = <<>> \/ is_file_whitespace(input)

\* The two early returns.
HandleTrivialFile(s, input, opts) ==
    IF input = <<>>
    THEN HandleEmptyFile(s, opts)
    ELSE HandleWhitespaceOnlyFile(s, input, opts)

\* "Parse the new line marker" at input_data[i].
ParseNewLineMarker(input, i) ==
    IF input[i + 1] = LINE_FEED THEN "Linux"
    ELSE IF i < Len(input) - 1 /\ input[i + 2] = LINE_FEED THEN "Windows"
    ELSE "MacOs"

\* A variant that rewinds one byte short and leaves one whitespace byte.
RemoveTrailingWhitespaceOneShort(s, opts) ==
    IF opts.remove_trailing_whitespace
       /\ Max(s.last_non_whitespace, s.last_end_of_line_including_eol_marker)
            < WriterPosition(s.writer)
    THEN [s EXCEPT
            !.changes = Append(@, Change(s.line_number,
                                         "RemovedTrailingWhitespace", <<>>)),
            !.writer = WriterRewind(@,
                Max(s.last_non_whitespace,
                    s.last_end_of_line_including_eol_marker) + 1)]
    ELSE s

\* "Remove trailing whitespace" before a new line marker.
RemoveTrailingWhitespace(s, opts) ==
    IF opts.remove_trailing_whitespace
       /\ Max(s.last_non_whitespace, s.last_end_of_line_including_eol_marker)
            < WriterPosition(s.writer)
    THEN Rewind([s EXCEPT
                   !.changes = Append(@, Change(s.line_number,
                                          "RemovedTrailingWhitespace", <<>>))],
                Max(s.last_non_whitespace,
                    s.last_end_of_line_including_eol_marker))
    ELSE s

\* A variant that replaces a marker without recording the change.
AddNewLineMarkerUnrecorded(s, opts, new_line_marker) ==
    IF opts.normalize_new_line_markers
       /\ s.output_new_line_marker # new_line_marker
    THEN [s EXCEPT
            !.writer = WriterWriteBytes(@, to_bytes(s.output_new_line_marker))]
    ELSE [s EXCEPT !.writer = WriterWriteBytes(@, to_bytes(new_line_marker))]

\* A variant that records the replacement and writes the marker found.
AddNewLineMarkerNotReplaced(s, opts, new_line_marker) ==
    IF opts.normalize_new_line_markers
       /\ s.output_new_line_marker # new_line_marker
    THEN [s EXCEPT
            !.changes = Append(@, Change(s.line_number, "ReplacedNewLineMarker",
                                <<new_line_marker, s.output_new_line_marker>>)),
            !.writer = WriterWriteBytes(@, to_bytes(new_line_marker))]
    ELSE [s EXCEPT !.writer = WriterWriteBytes(@, to_bytes(new_line_marker))]

\* A variant that writes the output marker whether or not
\* normalize_new_line_markers is set.
AddNewLineMarkerAlways(s, opts, new_line_marker) ==
    IF s.output_new_line_marker # new_line_marker
    THEN [s EXCEPT
            !.changes = Append(@, Change(s.line_number, "ReplacedNewLineMarker",
                                <<new_line_marker, s.output_new_line_marker>>)),
            !.writer = WriterWriteBytes(@, to_bytes(s.output_new_line_marker))]
    ELSE [s EXCEPT !.writer = WriterWriteBytes(@, to_bytes(new_line_marker))]

\* "Add new line marker": the marker found is written, or the output marker
\* in its place.
AddNewLineMarker(s, opts, new_line_marker) ==
    IF opts.normalize_new_line_markers
       /\ s.output_new_line_marker # new_line_marker
    THEN [s EXCEPT
            !.changes = Append(@, Change(s.line_number, "ReplacedNewLineMarker",
                                <<new_line_marker, s.output_new_line_marker>>)),
            !.writer = WriterWriteBytes(@, to_bytes(s.output_new_line_marker))]
    ELSE [s EXCEPT !.writer = WriterWriteBytes(@, to_bytes(new_line_marker))]

\* A variant that never notes the number of the last non-empty line.
UpdateLastLineNumberNotNoted(s, is_empty_line, last_end_of_line_excluding_eol_marker) ==
    LET t == [s EXCEPT !.last_end_of_line_including_eol_marker =
                           WriterPosition(s.writer)]
        u == IF ~is_empty_line
             THEN [t EXCEPT
                     !.last_end_of_non_empty_line_excluding_eol_marker =
                         last_end_of_line_excluding_eol_marker,
                     !.last_end_of_non_empty_line_including_eol_marker =
                         t.last_end_of_line_including_eol_marker]
             ELSE t
    IN [u EXCEPT !.line_number = @ + 1]

\* "Update position of last non-empty line" and count the line.
UpdateLastLine(s, is_empty_line, last_end_of_line_excluding_eol_marker) ==
    LET t == [s EXCEPT !.last_end_of_line_including_eol_marker =
                           WriterPosition(s.writer)]
        u == IF ~is_empty_line
             THEN [t EXCEPT
                     !.last_end_of_non_empty_line_excluding_eol_marker =
                         last_end_of_line_excluding_eol_marker,
                     !.last_end_of_non_empty_line_including_eol_marker =
                         t.last_end_of_line_including_eol_marker,
                     !.last_non_empty_line_number = t.line_number]
             ELSE t
    IN [u EXCEPT !.line_number = @ + 1]

\* A variant that leaves the LINE_FEED of a Windows marker to the next
\* pass of the loop.
ScanNewLineMarkerExtraByteKept(s, input, opts) ==
    LET new_line_marker == ParseNewLineMarker(input, s.i)
        s2 == RemoveTrailingWhitespace(s, opts)
        is_empty_line ==
            s2.last_end_of_line_including_eol_marker = WriterPosition(s2.writer)
        last_end_of_line_excluding_eol_marker == WriterPosition(s2.writer)
        s3 == AddNewLineMarker(s2, opts, new_line_marker)
    IN UpdateLastLine(s3, is_empty_line, last_end_of_line_excluding_eol_marker)

\* A variant that decides whether the line is empty before its trailing
\* whitespace is removed.
ScanNewLineMarkerEmptyBeforeRemoval(s, input, opts) ==
    LET new_line_marker == ParseNewLineMarker(input, s.i)
        s1 == IF new_line_marker = "Windows" THEN [s EXCEPT !.i = @ + 1] ELSE s
        is_empty_line ==
            s1.last_end_of_line_including_eol_marker = WriterPosition(s1.writer)
        s2 == RemoveTrailingWhitespace(s1, opts)
        last_end_of_line_excluding_eol_marker == WriterPosition(s2.writer)
        s3 == AddNewLineMarker(s2, opts, new_line_marker)
    IN UpdateLastLine(s3, is_empty_line, last_end_of_line_excluding_eol_marker)

\* The loop body when input_data[i] is a carriage return or a line feed.
ScanNewLineMarker(s, input, opts) ==
    LET new_line_marker == ParseNewLineMarker(input, s.i)
        \* "Skip the extra byte" of a Windows marker.
        s1 == IF new_line_marker = "Windows" THEN [s EXCEPT !.i = @ + 1] ELSE s
        s2 == RemoveTrailingWhitespace(s1, opts)
        is_empty_line ==
            s2.last_end_of_line_including_eol_marker = WriterPosition(s2.writer)
        last_end_of_line_excluding_eol_marker == WriterPosition(s2.writer)
        s3 == AddNewLineMarker(s2, opts, new_line_marker)
    IN UpdateLastLine(s3, is_empty_line, last_end_of_line_excluding_eol_marker)

\* The loop body when input_data[i] is a space.
ScanSpace(s, input) ==
    [s EXCEPT !.writer = WriterWrite(@, input[s.i + 1])]

\* "for _ in 0..options.replace_tabs_with_spaces { writer.write(SPACE); }":
\* k calls of write.
RECURSIVE WriteSpaces(_, _)
WriteSpaces(w, k) ==
    IF k <= 0 THEN w ELSE WriteSpaces(WriterWrite(w, SPACE), k - 1)

\* A variant that writes one space for a tab under a positive policy.
ScanTabOneSpace(s, input, opts) ==
    IF opts.replace_tabs_with_spaces < 0
    THEN [s EXCEPT !.writer = WriterWrite(@, input[s.i + 1])]
    ELSE IF opts.replace_tabs_with_spaces > 0
    THEN [s EXCEPT
            !.changes = Append(@, Change(s.line_number,
                                         "ReplacedTabWithSpaces", <<>>)),
            !.writer = WriterWrite(@, SPACE)]
    ELSE [s EXCEPT
            !.changes = Append(@, Change(s.line_number, "RemovedTab", <<>>))]

\* The loop body when input_data[i] is a tab.
ScanTab(s, input, opts) ==
    IF opts.replace_tabs_with_spaces < 0
    THEN [s EXCEPT !.writer = WriterWrite(@, input[s.i + 1])]
    ELSE IF opts.replace_tabs_with_spaces > 0
    THEN [s EXCEPT
            !.changes = Append(@, Change(s.line_number,
                                         "ReplacedTabWithSpaces", <<>>)),
            !.writer = WriteSpaces(@, opts.replace_tabs_with_spaces)]
    ELSE [s EXCEPT
            !.changes = Append(@, Change(s.line_number, "RemovedTab", <<>>))]

\* A variant whose records carry the byte written, not the byte read.
ScanNonStandardWhitespaceByteWritten(s, input, opts) ==
    CASE opts.normalize_non_standard_whitespace = "Ignore" ->
            [s EXCEPT !.writer = WriterWrite(@, input[s.i + 1])]
      [] opts.normalize_non_standard_whitespace = "ReplaceWithSpace" ->
            [s EXCEPT
               !.writer = WriterWrite(@, SPACE),
               !.changes = Append(@, Change(s.line_number,
                                  "ReplacedNonstandardWhitespaceBySpace",
                                  <<SPACE>>))]
      [] opts.normalize_non_standard_whitespace = "Remove" ->
            [s EXCEPT
               !.changes = Append(@, Change(s.line_number,
                                  "RemovedNonstandardWhitespace",
                                  <<input[s.i + 1]>>))]

\* The loop body when input_data[i] is a vertical tab or a form feed.
ScanNonStandardWhitespace(s, input, opts) ==
    CASE opts.normalize_non_standard_whitespace = "Ignore" ->
            [s EXCEPT !.writer = WriterWrite(@, input[s.i + 1])]
      [] opts.normalize_non_standard_whitespace = "ReplaceWithSpace" ->
            [s EXCEPT
               !.writer = WriterWrite(@, SPACE),
               !.changes = Append(@, Change(s.line_number,
                                  "ReplacedNonstandardWhitespaceBySpace",
                                  <<input[s.i + 1]>>))]
      [] opts.normalize_non_standard_whitespace = "Remove" ->
            [s EXCEPT
               !.changes = Append(@, Change(s.line_number,
                                  "RemovedNonstandardWhitespace",
                                  <<input[s.i + 1]>>))]

\* A variant that writes the same byte for every other byte.
ScanOtherFixedByte(s, input) ==
    LET w == WriterWrite(s.writer, LETTER)
    IN [s EXCEPT !.writer = w, !.last_non_whitespace = WriterPosition(w)]

\* The loop body for every other byte.
ScanOther(s, input) ==
    LET w == WriterWrite(s.writer, input[s.i + 1])
    IN [s EXCEPT !.writer = w, !.last_non_whitespace = WriterPosition(w)]

\* "Move to the next byte".
NextByte(s) == [s EXCEPT !.i = @ + 1]

IsNewLineByte(b) == b = CARRIAGE_RETURN \/ b = LINE_FEED
IsNonStandardByte(b) == b = VERTICAL_TAB \/ b = FORM_FEED

\* One iteration of the while loop.
ScanByte(s, input, opts) ==
    LET b == input[s.i + 1]
    IN NextByte(
         IF IsNewLineByte(b) THEN ScanNewLineMarker(s, input, opts)
         ELSE IF b = SPACE THEN ScanSpace(s, input)
         ELSE IF b = TAB THEN ScanTab(s, input, opts)
         ELSE IF IsNonStandardByte(b)
              THEN ScanNonStandardWhitespace(s, input, opts)
         ELSE ScanOther(s, input))

\* The whole while loop.
RECURSIVE ScanAll(_, _, _)
ScanAll(s, input, opts) ==
    IF s.i < Len(input) THEN ScanAll(ScanByte(s, input, opts), input, opts)
    ELSE s

\* "Remove trailing whitespace from the last line."
RemoveTrailingWhitespaceLastLine(s, opts) ==
    IF opts.remove_trailing_whitespace
       /\ s.last_end_of_line_including_eol_marker < WriterPosition(s.writer)
       /\ s.last_non_whitespace < WriterPosition(s.writer)
    THEN Rewind([s EXCEPT
                   !.changes = Append(@, Change(s.line_number,
                                          "RemovedTrailingWhitespace", <<>>))],
                s.last_non_whitespace)
    ELSE s

\* A variant that records the removal at the line the scan stopped at.
RemoveTrailingEmptyLinesStaleLine(s, opts) ==
    IF opts.remove_trailing_empty_lines
       /\ s.last_end_of_line_including_eol_marker = WriterPosition(s.writer)
       /\ s.last_end_of_non_empty_line_including_eol_marker
            < WriterPosition(s.writer)
    THEN [s EXCEPT
            !.last_end_of_line_including_eol_marker =
                s.last_end_of_non_empty_line_including_eol_marker,
            !.changes = Append(@, Change(s.line_number,
                                         "RemovedEmptyLines", <<>>)),
            !.writer = WriterRewind(@,
                s.last_end_of_non_empty_line_including_eol_marker)]
    ELSE s

\* A variant that looks for empty lines before the last marker, not before
\* the writer's position.
RemoveTrailingEmptyLinesBeforeLastMarker(s, opts) ==
    IF opts.remove_trailing_empty_lines
       /\ s.last_end_of_non_empty_line_including_eol_marker
            < s.last_end_of_line_including_eol_marker
    THEN Rewind([s EXCEPT
                   !.line_number = s.last_non_empty_line_number + 1,
                   !.last_end_of_line_including_eol_marker =
                       s.last_end_of_non_empty_line_including_eol_marker,
                   !.changes = Append(@,
                       Change(s.last_non_empty_line_number + 1,
                              "RemovedEmptyLines", <<>>))],
                s.last_end_of_non_empty_line_including_eol_marker)
    ELSE s

\* "Remove trailing empty lines."
RemoveTrailingEmptyLines(s, opts) ==
    IF opts.remove_trailing_empty_lines
       /\ s.last_end_of_line_including_eol_marker = WriterPosition(s.writer)
       /\ s.last_end_of_non_empty_line_including_eol_marker
            < WriterPosition(s.writer)
    THEN Rewind([s EXCEPT
                   !.line_number = s.last_non_empty_line_number + 1,
                   !.last_end_of_line_including_eol_marker =
                       s.last_end_of_non_empty_line_including_eol_marker,
                   !.changes = Append(@,
                       Change(s.last_non_empty_line_number + 1,
                              "RemovedEmptyLines", <<>>))],
                s.last_end_of_non_empty_line_including_eol_marker)
    ELSE s

\* "Add new line marker at the end of the file"
AddNewLineMarkerAtEndOfFile(s, opts) ==
    IF opts.add_new_line_marker_at_end_of_file
       /\ s.last_end_of_line_including_eol_marker < WriterPosition(s.writer)
    THEN LET w == WriterWriteBytes(s.writer, to_bytes(s.output_new_line_marker))
         IN [s EXCEPT
               !.changes = Append(@, Change(s.line_number,
                                  "NewLineMarkerAddedToEndOfFile", <<>>)),
               !.writer = w,
               !.last_end_of_line_including_eol_marker = WriterPosition(w),
               !.line_number = @ + 1]
    ELSE s

\* A variant of step 4 that puts its change before the others.
RemoveNewLineMarkerRecordedFirst(s, opts) ==
    IF opts.remove_new_line_marker_from_end_of_file
       /\ s.last_end_of_line_including_eol_marker = WriterPosition(s.writer)
       /\ s.line_number >= 2
    THEN Rewind([s EXCEPT
                   !.line_number = s.last_non_empty_line_number,
                   !.changes =
                       <<Change(s.last_non_empty_line_number,
                                "NewLineMarkerRemovedFromEndOfFile", <<>>)>>
                       \o @],
                s.last_end_of_non_empty_line_excluding_eol_marker)
    ELSE s

\* A variant that rewinds to the end of the last non-empty line with its
\* marker.
RemoveNewLineMarkerKeepsMarker(s, opts) ==
    IF opts.remove_new_line_marker_from_end_of_file
       /\ s.last_end_of_line_including_eol_marker = WriterPosition(s.writer)
       /\ s.line_number >= 2
    THEN [s EXCEPT
            !.line_number = s.last_non_empty_line_number,
            !.changes = Append(@, Change(s.last_non_empty_line_number,
                                  "NewLineMarkerRemovedFromEndOfFile", <<>>)),
            !.writer = WriterRewind(@,
                s.last_end_of_non_empty_line_including_eol_marker)]
    ELSE s

\* A variant that takes the last byte only, whatever stands before it.
RemoveNewLineMarkerLastByteOnly(s, opts) ==
    IF opts.remove_new_line_marker_from_end_of_file
       /\ s.last_end_of_line_including_eol_marker = WriterPosition(s.writer)
       /\ s.line_number >= 2
    THEN [s EXCEPT
            !.line_number = s.last_non_empty_line_number,
            !.changes = Append(@, Change(s.last_non_empty_line_number,
                                  "NewLineMarkerRemovedFromEndOfFile", <<>>)),
            !.writer = WriterRewind(@, WriterPosition(s.writer) - 1)]
    ELSE s

\* "Remove new line marker from the end of the file"
RemoveNewLineMarkerFromEndOfFile(s, opts) ==
    IF opts.remove_new_line_marker_from_end_of_file
       /\ s.last_end_of_line_including_eol_marker = WriterPosition(s.writer)
       /\ s.line_number >= 2
    THEN Rewind([s EXCEPT
                   !.line_number = s.last_non_empty_line_number,
                   !.changes = Append(@,
                       Change(s.last_non_empty_line_number,
                              "NewLineMarkerRemovedFromEndOfFile", <<>>))],
                s.last_end_of_non_empty_line_excluding_eol_marker)
    ELSE s

\* modify_content as a function: the locals when it returns (the bytes in
\* writer, the list returned in changes).
ModifyContentWith(input, opts, writer) ==
    LET s0 == LocalsWith(ResolveNewLineMarker(input, opts), writer)
    IN IF IsTrivialFile(input)
       THEN HandleTrivialFile(s0, input, opts)
       ELSE RemoveNewLineMarkerFromEndOfFile(
              AddNewLineMarkerAtEndOfFile(
                RemoveTrailingEmptyLines(
                  RemoveTrailingWhitespaceLastLine(
                    ScanAll(s0, input, opts), opts), opts), opts), opts)

\* modify_content called with a new Vec.
ModifyContent(input, opts) == ModifyContentWith(input, opts, VecNew)

-----------------------------------------------------------------------------
(* The state machine                                                       *)

Bytes == {CARRIAGE_RETURN, LINE_FEED, SPACE, TAB, VERTICAL_TAB, FORM_FEED,
          LETTER}

PlainBytes == {CARRIAGE_RETURN, LINE_FEED, SPACE, LETTER}

Inputs ==
    UNION ({[1..n -> Bytes] : n \in 0..MaxLen}
           \cup {[1..n -> PlainBytes] : n \in (MaxLen + 1)..MaxPlainLen})

OutputNewLineMarkerMode == {"Auto", "Linux", "MacOs", "Windows"}
TrivialFileReplacementMode == {"Ignore", "Empty", "OneLine"}
NonStandardWhitespaceReplacementMode == {"Ignore", "ReplaceWithSpace", "Remove"}

\* What the command line lets through: conflicts_with of
\* remove_new_line_marker_from_end_of_file, and validate.
ValidOptions(o) ==
    /\ ~(o.add_new_line_marker_at_end_of_file
         /\ o.remove_new_line_marker_from_end_of_file)
    /\ ~(o.normalize_whitespace_only_files = "Empty"
         /\ o.normalize_empty_files = "OneLine")

Occurs(bytes, input) == \E k \in 1..Len(input) : input[k] \in bytes

\* Every rule off (the Options of the command line's defaults), or every
\* rule on with one of the two end-of-file rules.
AllOrNothing(o) ==
    LET on == o.normalize_new_line_markers
    IN /\ o.remove_trailing_whitespace = on
       /\ o.remove_trailing_empty_lines = on
       /\ on = (o.add_new_line_marker_at_end_of_file
                \/ o.remove_new_line_marker_from_end_of_file)
       /\ o.replace_tabs_with_spaces = (IF on THEN 0 ELSE -1)
       /\ o.normalize_non_standard_whitespace =
            (IF on THEN "Remove" ELSE "Ignore")

\* The valid options tried with an input.  An option that modify_content
\* reads only at a byte the input does not hold is left at its default: the
\* tab policy without a tab, the non-standard whitespace policy without a
\* vertical tab or form feed, the two trivial-file policies with an input
\* that holds a non-whitespace byte.  A trivial input is tried with every
\* output marker mode and trivial-file policy, and with the other rules all
\* off or all on.
OptionsFor(input) ==
    LET trivial == IsTrivialFile(input)
        policies == IF trivial THEN TrivialFileReplacementMode ELSE {"Ignore"}
    IN { o \in
         [ add_new_line_marker_at_end_of_file : BOOLEAN,
           remove_new_line_marker_from_end_of_file : BOOLEAN,
           normalize_new_line_markers : BOOLEAN,
           remove_trailing_whitespace : BOOLEAN,
           remove_trailing_empty_lines : BOOLEAN,
           new_line_marker : OutputNewLineMarkerMode,
           normalize_empty_files : policies,
           normalize_whitespace_only_files : policies,
           replace_tabs_with_spaces :
               IF trivial THEN {-1, 0}
               ELSE IF Occurs({TAB}, input) THEN {-1, 0, TabSpaces} ELSE {-1},
           normalize_non_standard_whitespace :
               IF trivial THEN {"Ignore", "Remove"}
               ELSE IF Occurs({VERTICAL_TAB, FORM_FEED}, input)
                    THEN NonStandardWhitespaceReplacementMode
                    ELSE {"Ignore"} ] :
         /\ ValidOptions(o)
         /\ trivial => AllOrNothing(o) }

\* modify_content is called on bytes in memory: no file, no process exit.
NoFiles ==
    /\ check_only = FALSE
    /\ file_system = <<>>
    /\ remaining = <<>>
    /\ current = <<>>
    /\ returned = <<>>
    /\ writes = <<>>
    /\ exit_code = <<>>

\* Nor is any file searched for.
NoDiscovery ==
    /\ follow_symlinks = FALSE
    /\ tree = <<>>
    /\ discovery = <<>>

\* Where modify_content stands once the output marker is resolved.
Entry(input) == IF IsTrivialFile(input) THEN "trivial" ELSE "scan"

Init ==
    /\ input_data \in Inputs
    /\ options \in OptionsFor(input_data)
    /\ run = 1
    /\ pc = Entry(input_data)
    /\ engine = Locals(ResolveNewLineMarker(input_data, options))
    /\ NoFiles
    /\ NoDiscovery

CurrentByte == input_data[engine.i + 1]

InLoop == pc = "scan" /\ engine.i < Len(input_data)

EmptyFile ==
    /\ pc = "trivial"
    /\ input_data = <<>>
    /\ engine' = HandleEmptyFile(engine, options)
    /\ pc' = "done"
    /\ UNCHANGED <<input_data, options, run, file_vars, discover_vars>>

WhitespaceOnlyFile ==
    /\ pc = "trivial"
    /\ input_data # <<>>
    /\ engine' = HandleWhitespaceOnlyFile(engine, input_data, options)
    /\ pc' = "done"
    /\ UNCHANGED <<input_data, options, run, file_vars, discover_vars>>

NewLineMarkerStep ==
    /\ InLoop
    /\ IsNewLineByte(CurrentByte)
    /\ engine' = NextByte(ScanNewLineMarker(engine, input_data, options))
    /\ UNCHANGED <<input_data, options, run, pc, file_vars, discover_vars>>

SpaceStep ==
    /\ InLoop
    /\ CurrentByte = SPACE
    /\ engine' = NextByte(ScanSpace(engine, input_data))
    /\ UNCHANGED <<input_data, options, run, pc, file_vars, discover_vars>>

TabStep ==
    /\ InLoop
    /\ CurrentByte = TAB
    /\ engine' = NextByte(ScanTab(engine, input_data, options))
    /\ UNCHANGED <<input_data, options, run, pc, file_vars, discover_vars>>

NonStandardWhitespaceStep ==
    /\ InLoop
    /\ IsNonStandardByte(CurrentByte)
    /\ engine' = NextByte(ScanNonStandardWhitespace(engine, input_data, options))
    /\ UNCHANGED <<input_data, options, run, pc, file_vars, discover_vars>>

OtherByteStep ==
    /\ InLoop
    /\ ~IsWhitespaceByte(CurrentByte)
    /\ engine' = NextByte(ScanOther(engine, input_data))
    /\ UNCHANGED <<input_data, options, run, pc, file_vars, discover_vars>>

\* The loop is left and post-processing step 1 runs.
TrailingWhitespaceLastLineStep ==
    /\ pc = "scan"
    /\ ~(engine.i < Len(input_data))
    /\ engine' = RemoveTrailingWhitespaceLastLine(engine, options)
    /\ pc' = "empty_lines"
    /\ UNCHANGED <<input_data, options, run, file_vars, discover_vars>>

TrailingEmptyLinesStep ==
    /\ pc = "empty_lines"
    /\ engine' = RemoveTrailingEmptyLines(engine, options)
    /\ pc' = "add_eof"
    /\ UNCHANGED <<input_data, options, run, file_vars, discover_vars>>

AddEndOfFileMarkerStep ==
    /\ pc = "add_eof"
    /\ engine' = AddNewLineMarkerAtEndOfFile(engine, options)
    /\ pc' = "remove_eof"
    /\ UNCHANGED <<input_data, options, run, file_vars, discover_vars>>

RemoveEndOfFileMarkerStep ==
    /\ pc = "remove_eof"
    /\ engine' = RemoveNewLineMarkerFromEndOfFile(engine, options)
    /\ pc' = "done"
    /\ UNCHANGED <<input_data, options, run, file_vars, discover_vars>>

\* modify_content is applied to the bytes it has just produced.
Reapply ==
    /\ pc = "done"
    /\ run = 1
    /\ input_data' = engine.writer.bytes
    /\ run' = 2
    /\ pc' = Entry(engine.writer.bytes)
    /\ engine' = Locals(ResolveNewLineMarker(engine.writer.bytes, options))
    /\ UNCHANGED <<options, file_vars, discover_vars>>

Next ==
    \/ EmptyFile
    \/ WhitespaceOnlyFile
    \/ NewLineMarkerStep
    \/ SpaceStep
    \/ TabStep
    \/ NonStandardWhitespaceStep
    \/ OtherByteStep
    \/ TrailingWhitespaceLastLineStep
    \/ TrailingEmptyLinesStep
    \/ AddEndOfFileMarkerStep
    \/ RemoveEndOfFileMarkerStep
    \/ Reapply

Spec == Init /\ [][Next]_vars

\* The Options of the command line's defaults.
DefaultOptions ==
    [ add_new_line_marker_at_end_of_file |-> FALSE,
      remove_new_line_marker_from_end_of_file |-> FALSE,
      normalize_new_line_markers |-> FALSE,
      remove_trailing_whitespace |-> FALSE,
      remove_trailing_empty_lines |-> FALSE,
      new_line_marker |-> "Auto",
      normalize_empty_files |-> "Ignore",
      normalize_whitespace_only_files |-> "Ignore",
      replace_tabs_with_spaces |-> -1,
      normalize_non_standard_whitespace |-> "Ignore" ]

-----------------------------------------------------------------------------
(* modify_content on longer inputs, the marker at the end removed          *)

\* The longest input of these runs.
MaxLongLen == 5

\* The inputs with a non-whitespace byte, of carriage returns, line feeds,
\* spaces and letters.
LongInputs ==
    { input \in UNION {[1..n -> PlainBytes] : n \in 1..MaxLongLen} :
        ~IsTrivialFile(input) }

\* remove_new_line_marker_from_end_of_file with the rules that such inputs
\* can trigger, the others at their defaults.
LongOptions ==
    { [DefaultOptions EXCEPT !.remove_new_line_marker_from_end_of_file = TRUE,
                             !.remove_trailing_whitespace = rtw,
                             !.remove_trailing_empty_lines = rtel,
                             !.normalize_new_line_markers = nnlm] :
        rtw \in BOOLEAN, rtel \in BOOLEAN, nnlm \in BOOLEAN }

LongInit ==
    /\ input_data \in LongInputs
    /\ options \in LongOptions
    /\ run = 1
    /\ pc = "scan"
    /\ engine = Locals(ResolveNewLineMarker(input_data, options))
    /\ NoFiles
    /\ NoDiscovery

LongNext ==
    \/ NewLineMarkerStep
    \/ SpaceStep
    \/ OtherByteStep
    \/ TrailingWhitespaceLastLineStep
    \/ TrailingEmptyLinesStep
    \/ AddEndOfFileMarkerStep
    \/ RemoveEndOfFileMarkerStep

LongSpec == LongInit /\ [][LongNext]_vars

-----------------------------------------------------------------------------
(* modify_content on inputs with two different non-whitespace bytes       *)

\* The longest input of these runs.
MaxTextLen == 4

TextBytes == {CARRIAGE_RETURN, LINE_FEED, SPACE, TAB, LETTER, OTHER_LETTER}

TextInputs == UNION {[1..n -> TextBytes] : n \in 0..MaxTextLen}

\* The options tried with such an input.  A trivial input is tried with
\* every valid pair of the two trivial-file policies, the other rules off;
\* any other input with the rules on trailing whitespace, on empty lines and
\* on the end of the file, and, when it holds a tab, with the tab policies.
TextOptionsFor(input) ==
    IF IsTrivialFile(input)
    THEN { o \in { [DefaultOptions EXCEPT !.normalize_empty_files = e,
                                          !.normalize_whitespace_only_files = w] :
                     e \in TrivialFileReplacementMode,
                     w \in TrivialFileReplacementMode } : ValidOptions(o) }
    ELSE { [DefaultOptions EXCEPT
              !.remove_trailing_whitespace = rtw,
              !.remove_trailing_empty_lines = rtel,
              !.add_new_line_marker_at_end_of_file = (eof = "add"),
              !.remove_new_line_marker_from_end_of_file = (eof = "remove"),
              !.replace_tabs_with_spaces = tabs] :
             rtw \in BOOLEAN, rtel \in BOOLEAN,
             eof \in {"keep", "add", "remove"},
             tabs \in IF Occurs({TAB}, input) THEN {-1, 0, TabSpaces}
                      ELSE {-1} }

TextInit ==
    /\ input_data \in TextInputs
    /\ options \in TextOptionsFor(input_data)
    /\ run = 1
    /\ pc = Entry(input_data)
    /\ engine = Locals(ResolveNewLineMarker(input_data, options))
    /\ NoFiles
    /\ NoDiscovery

TextNext ==
    \/ EmptyFile
    \/ WhitespaceOnlyFile
    \/ NewLineMarkerStep
    \/ SpaceStep
    \/ TabStep
    \/ OtherByteStep
    \/ TrailingWhitespaceLastLineStep
    \/ TrailingEmptyLinesStep
    \/ AddEndOfFileMarkerStep
    \/ RemoveEndOfFileMarkerStep

TextSpec == TextInit /\ [][TextNext]_vars

-----------------------------------------------------------------------------
(* modify_content applied again and again with the pair of policies that   *)
(* validate rejects                                                        *)

\* The most calls of modify_content in a row.
MaxPasses == 4

\* Options with normalize_empty_files OneLine and
\* normalize_whitespace_only_files Empty, which validate rejects but
\* modify_content takes as any other.
RejectedOptions ==
    { [DefaultOptions EXCEPT
         !.normalize_empty_files = "OneLine",
         !.normalize_whitespace_only_files = "Empty",
         !.new_line_marker = marker,
         !.remove_trailing_whitespace = rtw,
         !.remove_trailing_empty_lines = rtel,
         !.normalize_new_line_markers = nnlm,
         !.add_new_line_marker_at_end_of_file = add] :
        marker \in OutputNewLineMarkerMode,
        rtw \in BOOLEAN, rtel \in BOOLEAN, nnlm \in BOOLEAN, add \in BOOLEAN }

\* The first call is on the empty file.
RepeatInit ==
    /\ input_data = <<>>
    /\ options \in RejectedOptions
    /\ run = 1
    /\ pc = Entry(input_data)
    /\ engine = Locals(ResolveNewLineMarker(input_data, options))
    /\ NoFiles
    /\ NoDiscovery

\* modify_content is applied once more to the bytes it has just produced.
ApplyAgain ==
    /\ pc = "done"
    /\ run < MaxPasses
    /\ input_data' = engine.writer.bytes
    /\ run' = run + 1
    /\ pc' = Entry(engine.writer.bytes)
    /\ engine' = Locals(ResolveNewLineMarker(engine.writer.bytes, options))
    /\ UNCHANGED <<options, file_vars, discover_vars>>

RepeatNext ==
    \/ EmptyFile
    \/ WhitespaceOnlyFile
    \/ ApplyAgain

RepeatSpec == RepeatInit /\ [][RepeatNext]_vars

-----------------------------------------------------------------------------
(* modify_content on inputs whose loop records changes of every kind       *)

\* The longest such input.
MaxLineLen == 4

LineBytes == {CARRIAGE_RETURN, LINE_FEED, SPACE, TAB, VERTICAL_TAB, LETTER}

\* The inputs the loop runs over.
LineInputs ==
    { input \in UNION {[1..n -> LineBytes] : n \in 1..MaxLineLen} :
        ~IsTrivialFile(input) }

\* Every rule of the loop on or off, and the removal of trailing empty
\* lines after it.
LineOptionsFor(input) ==
    { [DefaultOptions EXCEPT
         !.remove_trailing_whitespace = rtw,
         !.remove_trailing_empty_lines = rtel,
         !.normalize_new_line_markers = nnlm,
         !.new_line_marker = IF nnlm THEN "Linux" ELSE "Auto",
         !.replace_tabs_with_spaces = tabs,
         !.normalize_non_standard_whitespace = nsw] :
        rtw \in BOOLEAN, rtel \in BOOLEAN, nnlm \in BOOLEAN,
        tabs \in IF Occurs({TAB}, input) THEN {-1, 0} ELSE {-1},
        nsw \in IF Occurs({VERTICAL_TAB}, input) THEN {"Ignore", "Remove"}
                ELSE {"Ignore"} }

LineInit ==
    /\ input_data \in LineInputs
    /\ options \in LineOptionsFor(input_data)
    /\ run = 1
    /\ pc = Entry(input_data)
    /\ engine = Locals(ResolveNewLineMarker(input_data, options))
    /\ NoFiles
    /\ NoDiscovery

LineNext ==
    \/ NewLineMarkerStep
    \/ SpaceStep
    \/ TabStep
    \/ NonStandardWhitespaceStep
    \/ OtherByteStep
    \/ TrailingWhitespaceLastLineStep
    \/ TrailingEmptyLinesStep
    \/ AddEndOfFileMarkerStep
    \/ RemoveEndOfFileMarkerStep

LineSpec == LineInit /\ [][LineNext]_vars

-----------------------------------------------------------------------------
(* A Vec and a CountingWriter given the same calls                         *)

\* The most calls made on a writer.
MaxCalls == 4

\* The longest slice given to write_bytes.
MaxSliceLen == 2

WriterBytes == {LINE_FEED, LETTER}

Slices == UNION {[1..n -> WriterBytes] : n \in 0..MaxSliceLen}

\* Both writers are new.
WriterInit ==
    /\ input_data = <<>>
    /\ options = DefaultOptions
    /\ run = 1
    /\ pc = "writer"
    /\ engine = [vec |-> VecNew, counting |-> CountingWriterNew]
    /\ NoFiles
    /\ NoDiscovery

WriteCall ==
    /\ pc = "writer"
    /\ Len(engine.counting.history) < MaxCalls
    /\ \E byte \in WriterBytes :
         engine' = [vec |-> WriterWrite(engine.vec, byte),
                    counting |-> WriterWrite(engine.counting, byte)]
    /\ UNCHANGED <<input_data, options, run, pc, file_vars, discover_vars>>

WriteBytesCall ==
    /\ pc = "writer"
    /\ Len(engine.counting.history) < MaxCalls
    /\ \E bytes \in Slices :
         engine' = [vec |-> WriterWriteBytes(engine.vec, bytes),
                    counting |-> WriterWriteBytes(engine.counting, bytes)]
    /\ UNCHANGED <<input_data, options, run, pc, file_vars, discover_vars>>

\* rewind to a position not after the current one, as modify_content
\* calls it.
RewindCall ==
    /\ pc = "writer"
    /\ Len(engine.counting.history) < MaxCalls
    /\ \E previous_position \in 0..WriterPosition(engine.counting) :
         engine' = [vec |-> WriterRewind(engine.vec, previous_position),
                    counting |-> WriterRewind(engine.counting,
                                              previous_position)]
    /\ UNCHANGED <<input_data, options, run, pc, file_vars, discover_vars>>

WriterNext ==
    \/ WriteCall
    \/ WriteBytesCall
    \/ RewindCall

WriterSpec == WriterInit /\ [][WriterNext]_vars

-----------------------------------------------------------------------------
(* The run over files: validate, then process_file on each file in turn     *)

\* The longest file of the run over files.
MaxFileLen == 2

FileBytes == {LINE_FEED, SPACE, LETTER}

FileContents == UNION {[1..n -> FileBytes] : n \in 0..MaxFileLen}

\* The files of the run, in the order they are processed.
Paths == <<"a.txt", "b.txt">>

PathSet == {Paths[k] : k \in 1..Len(Paths)}

\* A file: its bytes now, its bytes before the run, whether fs::read
\* succeeds on it, and how far fs::write gets: creatable when File::create
\* opens and truncates it, writable when the bytes can then be written as
\* well.  A file that cannot be read is never looked into nor written, so
\* its bytes and the rest are left out.
Files ==
    { f \in [content : FileContents, original : FileContents,
             readable : BOOLEAN, creatable : BOOLEAN, writable : BOOLEAN] :
        /\ f.original = f.content
        /\ f.writable => f.creatable
        /\ ~f.readable => (f.content = <<>> /\ ~f.creatable /\ ~f.writable) }

\* The command lines of the run over files: the two trivial-file policies in
\* every combination, with and without --remove-trailing-whitespace.
CommandLines ==
    { [DefaultOptions EXCEPT !.remove_trailing_whitespace = rtw,
                             !.normalize_empty_files = e,
                             !.normalize_whitespace_only_files = w] :
        rtw \in BOOLEAN,
        e \in TrivialFileReplacementMode,
        w \in TrivialFileReplacementMode }

FileInit ==
    /\ check_only \in BOOLEAN
    /\ options \in CommandLines
    /\ file_system \in [PathSet -> Files]
    /\ remaining = Paths
    /\ current = <<>>
    /\ returned = [p \in PathSet |-> <<>>]
    /\ writes = <<>>
    /\ exit_code = <<>>
    /\ pc = "validate"
    /\ run = 1
    /\ input_data = <<>>
    /\ engine = LocalsWith(ResolveNewLineMarker(<<>>, options), CountingWriterNew)
    /\ NoDiscovery

\* The exit code of clap's Error::exit for an error that is not a help or
\* version request.
USAGE_CODE == 2

\* The exit code of die.
DIE_CODE == 1

\* process::exit: the process is over, whatever it was doing.
Exit(code) ==
    /\ exit_code' = <<code>>
    /\ pc' = "exited"

\* die: the message is printed and the process exits.
Die == Exit(DIE_CODE)

\* A validate that takes the two policies for each other.
IsArgumentConflictSwapped(o) ==
    /\ o.normalize_whitespace_only_files = "OneLine"
    /\ o.normalize_empty_files = "Empty"

\* The condition of validate.
IsArgumentConflict(o) ==
    /\ o.normalize_whitespace_only_files = "Empty"
    /\ o.normalize_empty_files = "OneLine"

\* CommandLineArguments::validate, called before any file is processed.
Validate ==
    /\ pc = "validate"
    /\ IF IsArgumentConflict(options)
       THEN Exit(USAGE_CODE)
       ELSE pc' = "next_file" /\ UNCHANGED exit_code
    /\ UNCHANGED <<input_data, options, run, engine, check_only, file_system,
                   remaining, current, returned, writes,
                   discover_vars>>

\* The caller of process_file takes the next file.
NextFile ==
    /\ pc = "next_file"
    /\ remaining # <<>>
    /\ current' = <<Head(remaining)>>
    /\ remaining' = Tail(remaining)
    /\ pc' = "read"
    /\ UNCHANGED <<input_data, options, run, engine, check_only, file_system,
                   returned, writes, exit_code,
                   discover_vars>>

\* A change list has been returned that is not empty.
SomeFileChanged == \E p \in PathSet : returned[p] # <<>> /\ returned[p][1] # <<>>

\* The caller of process_file has no file left: the process exits, with a
\* non-zero code when check_only found a change to make.
Finish ==
    /\ pc = "next_file"
    /\ remaining = <<>>
    /\ Exit(IF check_only /\ SomeFileChanged THEN DIE_CODE ELSE 0)
    /\ UNCHANGED <<input_data, options, run, engine, check_only, file_system,
                   remaining, current, returned, writes,
                   discover_vars>>

CurrentPath == current[1]

\* A process_file that gives up on a file it cannot read and returns no
\* changes for it.
ReadFileSkipsUnreadable ==
    /\ pc = "read"
    /\ IF file_system[CurrentPath].readable
       THEN /\ input_data' = file_system[CurrentPath].content
            /\ pc' = "counting_pass"
            /\ UNCHANGED <<current, returned>>
       ELSE /\ returned' = [returned EXCEPT ![CurrentPath] = << <<>> >>]
            /\ current' = <<>>
            /\ pc' = "next_file"
            /\ UNCHANGED input_data
    /\ UNCHANGED <<options, run, engine, check_only, file_system, remaining,
                   writes, exit_code,
                   discover_vars>>

\* process_file: fs::read.
ReadFile ==
    /\ pc = "read"
    /\ IF file_system[CurrentPath].readable
       THEN /\ input_data' = file_system[CurrentPath].content
            /\ pc' = "counting_pass"
            /\ UNCHANGED exit_code
       ELSE /\ Die
            /\ UNCHANGED input_data
    /\ UNCHANGED <<options, run, engine, check_only, file_system, remaining,
                   current, returned, writes,
                   discover_vars>>

\* The counting pass that goes on to write whatever check_only says.
CountingPassIgnoresCheckOnly ==
    /\ pc = "counting_pass"
    /\ engine' = ModifyContentWith(input_data, options, CountingWriterNew)
    /\ pc' = IF engine'.changes # <<>> THEN "real_pass" ELSE "return"
    /\ UNCHANGED <<input_data, options, run, file_vars, discover_vars>>

\* process_file: modify_content with a CountingWriter, then the decision to
\* write.
CountingPass ==
    /\ pc = "counting_pass"
    /\ engine' = ModifyContentWith(input_data, options, CountingWriterNew)
    /\ pc' = IF ~check_only /\ engine'.changes # <<>> THEN "real_pass"
             ELSE "return"
    /\ UNCHANGED <<input_data, options, run, file_vars, discover_vars>>

\* fs::write(path, bytes) gets through: File::create opens the file, and
\* write_all writes the bytes, which for no bytes is no write at all.
WriteSucceeds(file, bytes) ==
    file.creatable /\ (file.writable \/ bytes = <<>>)

\* process_file: modify_content with a Vec, then fs::write of its bytes.
\* When write_all fails, File::create has truncated the file and the writes
\* before the failed one have left some of the bytes, not all of them; when
\* File::create fails, the file is as it was.
RealPass ==
    /\ pc = "real_pass"
    /\ LET output_writer == ModifyContentWith(input_data, options, VecNew).writer
           file == file_system[CurrentPath]
       IN IF WriteSucceeds(file, output_writer.bytes)
          THEN /\ file_system' =
                    [file_system EXCEPT ![CurrentPath].content = output_writer.bytes]
               /\ writes' = Append(writes, [path |-> CurrentPath,
                                            bytes |-> output_writer.bytes])
               /\ pc' = "return"
               /\ UNCHANGED exit_code
          ELSE /\ Die
               /\ UNCHANGED writes
               /\ IF file.creatable
                  THEN \E n \in 0..(Len(output_writer.bytes) - 1) :
                         file_system' =
                             [file_system EXCEPT ![CurrentPath].content =
                                 SubSeq(output_writer.bytes, 1, n)]
                  ELSE UNCHANGED file_system
    /\ UNCHANGED <<input_data, options, run, engine, check_only, remaining,
                   current, returned,
                   discover_vars>>

\* process_file returns the changes of the counting pass.
Return ==
    /\ pc = "return"
    /\ returned' = [returned EXCEPT ![CurrentPath] = <<engine.changes>>]
    /\ current' = <<>>
    /\ pc' = "next_file"
    /\ UNCHANGED <<input_data, options, run, engine, check_only, file_system,
                   remaining, writes, exit_code,
                   discover_vars>>

FileNext ==
    \/ Validate
    \/ NextFile
    \/ Finish
    \/ ReadFile
    \/ CountingPass
    \/ RealPass
    \/ Return

FileSpec == FileInit /\ [][FileNext]_vars

-----------------------------------------------------------------------------
(* The search for files: discover_files                                    *)

\* The most paths given on the command line.
MaxGiven == 2

\* The names of the file system, in the order of their bytes.
NamesInOrder == <<"a", "b", "x", "y">>

\* The paths of the file system, each a sequence of names: two that can be
\* given on the command line, and two entries of the first when it is a
\* directory.
TreePaths == {<<"a">>, <<"b">>, <<"a", "x">>, <<"a", "y">>}

GivenPaths == UNION {[1..n -> {<<"a">>, <<"b">>}] : n \in 1..MaxGiven}

\* What a path is: whether its last component is a symbolic link, and what
\* is found when links are followed.  A dangling link is a symlink with kind
\* "missing"; "other" is neither a file nor a directory; the read_dir of an
\* "unreadable_dir" fails, that of a "bad_entry_dir" yields a failed entry.
EntryKinds ==
    {"file", "dir", "unreadable_dir", "bad_entry_dir", "other", "missing"}

Entries == [symlink : BOOLEAN, kind : EntryKinds]

\* No such path.
NoEntry == [symlink |-> FALSE, kind |-> "missing"]

Parent(path) == SubSeq(path, 1, Len(path) - 1)

\* The file systems: only a directory that can be listed has entries.
Trees ==
    { t \in [TreePaths -> Entries] :
        \A path \in TreePaths :
            (Len(path) > 1 /\ t[Parent(path)].kind # "dir") => t[path] = NoEntry }

\* Path::exists, Path::is_file and Path::is_dir follow symbolic links;
\* Path::is_symlink does not.
PathExists(path) == tree[path].kind # "missing"
PathIsSymlink(path) == tree[path].symlink
PathIsFile(path) == tree[path].kind = "file"
PathIsDir(path) == tree[path].kind \in {"dir", "unreadable_dir", "bad_entry_dir"}

\* The entries read_dir yields for a directory.
Listing(directory) ==
    { path \in TreePaths : /\ Len(path) = Len(directory) + 1
                           /\ Parent(path) = directory
                           /\ tree[path] # NoEntry }

\* The orders in which read_dir may yield them.
Orders(S) ==
    { order \in [1..Cardinality(S) -> S] :
        \A i, j \in 1..Cardinality(S) : order[i] = order[j] => i = j }

NameRank(name) == CHOOSE k \in 1..Len(NamesInOrder) : NamesInOrder[k] = name

\* The order of PathBuf: component by component, a prefix first.
RECURSIVE PathLess(_, _)
PathLess(p, q) ==
    IF q = <<>> THEN FALSE
    ELSE IF p = <<>> THEN TRUE
    ELSE IF Head(p) # Head(q) THEN NameRank(Head(p)) < NameRank(Head(q))
    ELSE PathLess(Tail(p), Tail(q))

\* sort_unstable then dedup: each path once, in ascending order.
RECURSIVE Ascending(_)
Ascending(S) ==
    IF S = {} THEN <<>>
    ELSE LET least == CHOOSE p \in S : \A q \in S \ {p} : PathLess(p, q)
         IN <<least>> \o Ascending(S \ {least})

\* A variant of the end of discover_files that sorts and keeps a path as
\* often as it was found.
RECURSIVE SortOnly(_)
SortOnly(files) ==
    IF files = <<>> THEN <<>>
    ELSE LET k == CHOOSE i \in 1..Len(files) :
                    \A j \in 1..Len(files) : ~PathLess(files[j], files[i])
             rest == [j \in 1..(Len(files) - 1) |->
                          IF j < k THEN files[j] ELSE files[j + 1]]
         IN <<files[k]>> \o SortOnly(rest)

\* files.sort_unstable(); files.dedup()
SortAndDedup(files) == Ascending({files[k] : k \in 1..Len(files)})

DiscoverInit ==
    /\ follow_symlinks \in BOOLEAN
    /\ tree \in Trees
    /\ \E given \in GivenPaths :
         \* given_paths is the argument, which the local paths shadows.
         discovery = [given_paths |-> given, paths |-> given, files |-> <<>>,
                      directories |-> <<>>, k |-> 1]
    /\ pc = "examine"
    /\ exit_code = <<>>
    /\ check_only = FALSE
    /\ file_system = <<>>
    /\ remaining = <<>>
    /\ current = <<>>
    /\ returned = <<>>
    /\ writes = <<>>
    /\ options = DefaultOptions
    /\ input_data = <<>>
    /\ run = 1
    /\ engine = Locals(ResolveNewLineMarker(<<>>, DefaultOptions))

\* What discover_files leaves alone.
NotOfDiscovery ==
    <<input_data, options, run, engine, check_only, file_system, remaining,
      current, returned, writes, follow_symlinks, tree>>

\* The "for path in paths.iter()" loop stands at a path.
Examining == pc = "examine" /\ discovery.k <= Len(discovery.paths)

ExaminedPath == discovery.paths[discovery.k]

\* The symbolic link test of the loop.
IsIgnoredSymlink(path) == PathIsSymlink(path) /\ ~follow_symlinks

NextPath == [discovery EXCEPT !.k = @ + 1]

\* "if !path.exists()": die.
PathNotFound ==
    /\ Examining
    /\ ~PathExists(ExaminedPath)
    /\ Die
    /\ UNCHANGED discovery
    /\ UNCHANGED NotOfDiscovery

\* "else if path.is_symlink() && !follow_symlinks": continue.
SkipSymlink ==
    /\ Examining
    /\ PathExists(ExaminedPath)
    /\ IsIgnoredSymlink(ExaminedPath)
    /\ discovery' = NextPath
    /\ UNCHANGED <<pc, exit_code>>
    /\ UNCHANGED NotOfDiscovery

\* "else if path.is_file()": the path is a file of the result.
FoundFile ==
    /\ Examining
    /\ PathExists(ExaminedPath)
    /\ ~IsIgnoredSymlink(ExaminedPath)
    /\ PathIsFile(ExaminedPath)
    /\ discovery' = [NextPath EXCEPT !.files = Append(@, ExaminedPath)]
    /\ UNCHANGED <<pc, exit_code>>
    /\ UNCHANGED NotOfDiscovery

\* "else if path.is_dir()": the path is searched in the next round.
FoundDirectory ==
    /\ Examining
    /\ PathExists(ExaminedPath)
    /\ ~IsIgnoredSymlink(ExaminedPath)
    /\ ~PathIsFile(ExaminedPath)
    /\ PathIsDir(ExaminedPath)
    /\ discovery' = [NextPath EXCEPT !.directories = Append(@, ExaminedPath)]
    /\ UNCHANGED <<pc, exit_code>>
    /\ UNCHANGED NotOfDiscovery

\* No branch is taken: the path is neither a file nor a directory.
FoundOther ==
    /\ Examining
    /\ PathExists(ExaminedPath)
    /\ ~IsIgnoredSymlink(ExaminedPath)
    /\ ~PathIsFile(ExaminedPath)
    /\ ~PathIsDir(ExaminedPath)
    /\ discovery' = NextPath
    /\ UNCHANGED <<pc, exit_code>>
    /\ UNCHANGED NotOfDiscovery

\* Every path is examined: "if directories.is_empty() { break; }", else
\* paths.clear().
EndOfLevel ==
    /\ pc = "examine"
    /\ discovery.k > Len(discovery.paths)
    /\ IF discovery.directories = <<>>
       THEN pc' = "sort" /\ UNCHANGED discovery
       ELSE /\ pc' = "read_directories"
            /\ discovery' = [discovery EXCEPT !.paths = <<>>, !.k = 1]
    /\ UNCHANGED exit_code
    /\ UNCHANGED NotOfDiscovery

\* The body of "for directory in directories.iter()": read_dir, and each
\* entry pushed to paths, or die.
ReadDirectory ==
    /\ pc = "read_directories"
    /\ discovery.k <= Len(discovery.directories)
    /\ LET directory == discovery.directories[discovery.k]
       IN IF tree[directory].kind = "dir"
          THEN /\ \E order \in Orders(Listing(directory)) :
                    discovery' = [NextPath EXCEPT !.paths = @ \o order]
               /\ UNCHANGED <<pc, exit_code>>
          ELSE /\ Die
               /\ UNCHANGED discovery
    /\ UNCHANGED NotOfDiscovery

\* Every directory is read: the next round of the loop, with new directories.
NextLevel ==
    /\ pc = "read_directories"
    /\ discovery.k > Len(discovery.directories)
    /\ discovery' = [discovery EXCEPT !.directories = <<>>, !.k = 1]
    /\ pc' = "examine"
    /\ UNCHANGED exit_code
    /\ UNCHANGED NotOfDiscovery

\* files.sort_unstable(); files.dedup(); files
ReturnFiles ==
    /\ pc = "sort"
    /\ discovery' = [discovery EXCEPT !.files = SortAndDedup(@)]
    /\ pc' = "discovered"
    /\ UNCHANGED exit_code
    /\ UNCHANGED NotOfDiscovery

DiscoverNext ==
    \/ PathNotFound
    \/ SkipSymlink
    \/ FoundFile
    \/ FoundDirectory
    \/ FoundOther
    \/ EndOfLevel
    \/ ReadDirectory
    \/ NextLevel
    \/ ReturnFiles

DiscoverSpec == DiscoverInit /\ [][DiscoverNext]_vars

\* discover_files runs on: no step of its loops waits for anything.
DiscoverFairSpec == DiscoverSpec /\ WF_vars(DiscoverNext)

-----------------------------------------------------------------------------
(* The exclusion of files: exclude_files                                   *)

\* The most paths in the list given to exclude_files.
MaxListed == 2

\* The longest path, in characters.
MaxPathLen == 2

\* A byte of a path that is not valid Unicode.
NotUnicode == "\\xFF"

PathChars == {"a", "j", ".", NotUnicode}

ListedPaths == UNION {[1..n -> PathChars] : n \in 1..MaxPathLen}

PathLists == UNION {[1..n -> ListedPaths] : n \in 0..MaxListed}

\* Path::to_str: "Yields a &str slice if the Path is valid unicode", as
\* the Option <<"Some", str>> or <<"None">>.
ToStr(path) ==
    IF \E k \in 1..Len(path) : path[k] = NotUnicode THEN <<"None">>
    ELSE <<"Some", path>>

\* The text of a regular expression is a sequence of characters.
\* "$.": a character after the end of the text.
UNMATCHABLE_REGEX == <<"$", ".">>

\* "", "\.j$", ".j" and "a" beside it, and two texts that are no regular
\* expression: "(" and "\".
Patterns ==
    { UNMATCHABLE_REGEX,
      <<>>,
      <<"\\", ".", "j", "$">>,
      <<".", "j">>,
      <<"a">>,
      <<"(">>,
      <<"\\">> }

\* Regex::new from the k-th character of the text on. A compiled regular
\* expression is a sequence of items: a character, "." (any character but
\* a new line) or "$" (the end of the text). A group that is not closed, a
\* backslash at the end and a backslash before a letter that is no escape
\* are errors; "\a" is the bell character.
RECURSIVE RegexNewFrom(_, _, _)
RegexNewFrom(pattern, k, items) ==
    IF k > Len(pattern) THEN <<"Ok", items>>
    ELSE IF pattern[k] = "(" THEN <<"Err">>
    ELSE IF pattern[k] = "\\"
         THEN IF k = Len(pattern) THEN <<"Err">>
              ELSE IF pattern[k + 1] \in {".", "$", "\\", "("}
                   THEN RegexNewFrom(pattern, k + 2,
                            Append(items, [kind |-> "char", char |-> pattern[k + 1]]))
              ELSE IF pattern[k + 1] = "a"
                   THEN RegexNewFrom(pattern, k + 2,
                            Append(items, [kind |-> "char", char |-> "\\x07"]))
              ELSE <<"Err">>
    ELSE IF pattern[k] = "."
         THEN RegexNewFrom(pattern, k + 1, Append(items, [kind |-> "any"]))
    ELSE IF pattern[k] = "$"
         THEN RegexNewFrom(pattern, k + 1, Append(items, [kind |-> "end"]))
    ELSE RegexNewFrom(pattern, k + 1,
             Append(items, [kind |-> "char", char |-> pattern[k]]))

RegexNew(pattern) == RegexNewFrom(pattern, 1, <<>>)

\* The items from the r-th on match the text from its position pos on.
RECURSIVE MatchFrom(_, _, _, _)
MatchFrom(regex, r, text, pos) ==
    IF r > Len(regex) THEN TRUE
    ELSE IF regex[r].kind = "end"
         THEN pos = Len(text) /\ MatchFrom(regex, r + 1, text, pos)
         ELSE /\ pos < Len(text)
              /\ IF regex[r].kind = "any" THEN text[pos + 1] # "\n"
                 ELSE text[pos + 1] = regex[r].char
              /\ MatchFrom(regex, r + 1, text, pos + 1)

\* Regex::is_match: a match anywhere in the text.
IsMatch(regex, text) ==
    \E pos \in 0..Len(text) : MatchFrom(regex, 1, text, pos)

ExcludeInit ==
    /\ \E paths \in PathLists, pattern \in Patterns :
         discovery = [paths |-> paths, regular_expression |-> pattern,
                      regex |-> <<>>, filtered_files |-> <<>>, k |-> 1]
    /\ pc = "compile"
    /\ follow_symlinks = FALSE
    /\ tree = <<>>
    /\ exit_code = <<>>
    /\ check_only = FALSE
    /\ file_system = <<>>
    /\ remaining = <<>>
    /\ current = <<>>
    /\ returned = <<>>
    /\ writes = <<>>
    /\ options = DefaultOptions
    /\ input_data = <<>>
    /\ run = 1
    /\ engine = Locals(ResolveNewLineMarker(<<>>, DefaultOptions))

\* compile_regular_expression: the compiled regular expression, or die with
\* Error::InvalidRegularExpression when the text is no regular expression.
CompileRegularExpression ==
    /\ pc = "compile"
    /\ LET compiled == RegexNew(discovery.regular_expression)
       IN IF compiled[1] = "Ok"
          THEN /\ discovery' = [discovery EXCEPT !.regex = compiled[2]]
               /\ pc' = "exclude"
               /\ UNCHANGED exit_code
          ELSE /\ Die
               /\ UNCHANGED discovery
    /\ UNCHANGED NotOfDiscovery

\* The "for path in paths.iter()" loop of exclude_files stands at a path.
Filtering == pc = "exclude" /\ discovery.k <= Len(discovery.paths)

FilteredPath == discovery.paths[discovery.k]

\* path.to_str().unwrap() of a path that is not valid Unicode: the thread
\* panics and the process ends.
UnwrapNone ==
    /\ Filtering
    /\ ToStr(FilteredPath) = <<"None">>
    /\ Exit("panic")
    /\ UNCHANGED discovery
    /\ UNCHANGED NotOfDiscovery

\* "if !regex.is_match(...)": the path is pushed to filtered_files.
KeepPath ==
    /\ Filtering
    /\ ToStr(FilteredPath) # <<"None">>
    /\ ~IsMatch(discovery.regex, ToStr(FilteredPath)[2])
    /\ discovery' = [NextPath EXCEPT !.filtered_files = Append(@, FilteredPath)]
    /\ UNCHANGED <<pc, exit_code>>
    /\ UNCHANGED NotOfDiscovery

\* The expression matches: the path is left out.
ExcludePath ==
    /\ Filtering
    /\ ToStr(FilteredPath) # <<"None">>
    /\ IsMatch(discovery.regex, ToStr(FilteredPath)[2])
    /\ discovery' = NextPath
    /\ UNCHANGED <<pc, exit_code>>
    /\ UNCHANGED NotOfDiscovery

\* filtered_files is returned.
ReturnFiltered ==
    /\ pc = "exclude"
    /\ discovery.k > Len(discovery.paths)
    /\ pc' = "excluded"
    /\ UNCHANGED <<discovery, exit_code>>
    /\ UNCHANGED NotOfDiscovery

ExcludeNext ==
    \/ CompileRegularExpression
    \/ UnwrapNone
    \/ KeepPath
    \/ ExcludePath
    \/ ReturnFiltered

ExcludeSpec == ExcludeInit /\ [][ExcludeNext]_vars

-----------------------------------------------------------------------------
(* The text of a change: char_to_str and ChangeType::to_string             *)

\* char_to_str: "Converts an ASCII code to a human-readable string".
char_to_str(char) ==
    IF char = CARRIAGE_RETURN THEN "\\n"
    ELSE IF char = LINE_FEED THEN "\\r"
    ELSE IF char = SPACE THEN " "
    ELSE IF char = TAB THEN "\\t"
    ELSE IF char = VERTICAL_TAB THEN "\\v"
    ELSE IF char = FORM_FEED THEN "\\f"
    ELSE "?"

\* ChangeType::to_string of the two changes that carry a byte: the parts
\* of the formatted text, the byte's in the middle.
NonstandardWhitespaceToString(change_type, char, check) ==
    IF change_type = "ReplacedNonstandardWhitespaceBySpace"
    THEN << "Non-standard whitespace character '", char_to_str(char),
            IF check THEN "' needs to be replaced by a space."
            ELSE "' was replaced by a space." >>
    ELSE << "Non-standard whitespace character '", char_to_str(char),
            IF check THEN "' needs to be removed."
            ELSE "' was removed." >>

\* A byte to render, any u8, and the check_only flag of the text.
RenderInit ==
    /\ input_data \in [1..1 -> 0..255]
    /\ check_only \in BOOLEAN
    /\ pc = "render"
    /\ returned = <<>>
    /\ options = DefaultOptions
    /\ run = 1
    /\ engine = Locals(ResolveNewLineMarker(<<>>, DefaultOptions))
    /\ file_system = <<>>
    /\ remaining = <<>>
    /\ current = <<>>
    /\ writes = <<>>
    /\ exit_code = <<>>
    /\ NoDiscovery

\* char_to_str(char) is called.
CharToStr ==
    /\ pc = "render"
    /\ returned' = <<char_to_str(input_data[1])>>
    /\ pc' = "char_rendered"
    /\ UNCHANGED <<input_data, options, run, engine, check_only, file_system,
                   remaining, current, writes, exit_code, discover_vars>>

\* to_string(check_only) is called on a change that carries the byte.
ChangeToString ==
    /\ pc = "render"
    /\ \E change_type \in {"ReplacedNonstandardWhitespaceBySpace",
                           "RemovedNonstandardWhitespace"} :
         returned' = NonstandardWhitespaceToString(change_type, input_data[1],
                                                   check_only)
    /\ pc' = "change_rendered"
    /\ UNCHANGED <<input_data, options, run, engine, check_only, file_system,
                   remaining, current, writes, exit_code, discover_vars>>

RenderNext ==
    \/ CharToStr
    \/ ChangeToString

RenderSpec == RenderInit /\ [][RenderNext]_vars

-----------------------------------------------------------------------------
(* Vocabulary of the claims                                                *)

Done == pc = "done"

\* The input holds a non-whitespace byte: the scanner runs.
NonTrivial == ~IsTrivialFile(input_data)

\* The bytes modify_content has written and the list it returns.
Output == engine.writer.bytes
Changes == engine.changes

HasChange(changes, type) ==
    \E k \in 1..Len(changes) : changes[k].change_type = type

Last(seq) == seq[Len(seq)]

-----------------------------------------------------------------------------
(* C1: idempotence.  When modify_content, under a valid configuration, has *)
(* been applied to the bytes a first application produced, it has written  *)
(* those same bytes again and returns an empty change list.                *)

C1_Idempotent ==
    (Done /\ run = 2) => (Output = input_data /\ Changes = <<>>)

-----------------------------------------------------------------------------
(* C2: dry-run/apply consistency.  modify_content returns an empty change  *)
(* list exactly when the bytes it wrote are the input; so a check-only     *)
(* process_file reports no change exactly when an applying process_file    *)
(* leaves the file's bytes as they were.                                   *)

\* The file's bytes after process_file with check_only false: written only
\* when the change list is not empty.
FileAfterApply == IF Changes # <<>> THEN Output ELSE input_data

C2_ChangesIffBytesDiffer ==
    Done => /\ (Changes = <<>>) <=> (Output = input_data)
            /\ (Changes = <<>>) <=> (FileAfterApply = input_data)

C2_Witness ==
    /\ Done /\ run = 1 /\ NonTrivial
    /\ Changes # <<>>
    /\ Output # input_data
    /\ Len(Output) = Len(input_data)

-----------------------------------------------------------------------------
(* C3: with add_new_line_marker_at_end_of_file, the output for an input    *)
(* that holds a non-whitespace byte ends with a new line marker, whatever  *)
(* the other options.                                                      *)

EndsWithNewLineByte(w) == w # <<>> /\ IsNewLineByte(Last(w))

C3_EndsWithNewLineMarker ==
    (Done /\ NonTrivial /\ options.add_new_line_marker_at_end_of_file)
        => EndsWithNewLineByte(Output)

-----------------------------------------------------------------------------
(* C4: with remove_trailing_whitespace as the only rule, the output for an *)
(* input that holds a non-whitespace byte is the input without, on every   *)
(* line, the run of spaces, tabs, vertical tabs and form feeds that stands *)
(* right before the line's marker or the end of the file.                  *)

BlankBytes == {SPACE, TAB, VERTICAL_TAB, FORM_FEED}

\* Byte k of input is blank, and so is every byte after it up to the next
\* new line byte or the end of the input.
IsTrailingBlank(input, k) ==
    /\ input[k] \in BlankBytes
    /\ \A j \in k..Len(input) :
          (\A m \in k..j : ~IsNewLineByte(input[m])) => input[j] \in BlankBytes

\* The bytes of input from byte k on that are not trailing blanks.
RECURSIVE WithoutTrailingWhitespaceFrom(_, _)
WithoutTrailingWhitespaceFrom(input, k) ==
    IF k > Len(input) THEN <<>>
    ELSE (IF IsTrailingBlank(input, k) THEN <<>> ELSE <<input[k]>>)
         \o WithoutTrailingWhitespaceFrom(input, k + 1)

WithoutTrailingWhitespace(input) == WithoutTrailingWhitespaceFrom(input, 1)

OnlyRemoveTrailingWhitespace(o) ==
    /\ o.remove_trailing_whitespace
    /\ ~o.add_new_line_marker_at_end_of_file
    /\ ~o.remove_new_line_marker_from_end_of_file
    /\ ~o.normalize_new_line_markers
    /\ ~o.remove_trailing_empty_lines
    /\ o.replace_tabs_with_spaces < 0
    /\ o.normalize_non_standard_whitespace = "Ignore"

C4_OnlyTrailingWhitespaceRemoved ==
    (Done /\ NonTrivial /\ OnlyRemoveTrailingWhitespace(options))
        => Output = WithoutTrailingWhitespace(input_data)

-----------------------------------------------------------------------------
(* C5: with remove_trailing_whitespace, whatever the other options, in the *)
(* output for an input that holds a non-whitespace byte no space, tab,     *)
(* vertical tab or form feed stands right before a new line marker or at   *)
(* the end of the output.                                                  *)

NoBlankBeforeMarkerOrEnd(w) ==
    \A k \in 1..Len(w) :
        w[k] \in BlankBytes => (k < Len(w) /\ ~IsNewLineByte(w[k + 1]))

C5_NoTrailingWhitespace ==
    (Done /\ NonTrivial /\ options.remove_trailing_whitespace)
        => NoBlankBeforeMarkerOrEnd(Output)

\* Trailing whitespace was removed before a marker, and whitespace inside a
\* line was kept.
C5_Witness ==
    /\ Done /\ run = 1 /\ NonTrivial
    /\ options.remove_trailing_whitespace
    /\ HasChange(Changes, "RemovedTrailingWhitespace")
    /\ EndsWithNewLineByte(Output)
    /\ Occurs(BlankBytes, Output)

-----------------------------------------------------------------------------
(* C6: with remove_new_line_marker_from_end_of_file, for an input that     *)
(* holds a non-whitespace byte, the last byte of the output is neither a   *)
(* carriage return nor a line feed, and the last post-processing step      *)
(* records NewLineMarkerRemovedFromEndOfFile exactly when the output       *)
(* before that step ended with a new line marker.                          *)

C6_EndOfFileMarkerRemoved ==
    [][(pc = "remove_eof" /\ NonTrivial
        /\ options.remove_new_line_marker_from_end_of_file)
       => /\ pc' = "done"
          /\ ~EndsWithNewLineByte(engine'.writer.bytes)
          /\ HasChange(engine'.changes, "NewLineMarkerRemovedFromEndOfFile")
               <=> EndsWithNewLineByte(engine.writer.bytes)]_vars

C6_Witness ==
    /\ Done /\ run = 1 /\ NonTrivial
    /\ options.remove_new_line_marker_from_end_of_file
    /\ EndsWithNewLineByte(input_data)
    /\ HasChange(Changes, "NewLineMarkerRemovedFromEndOfFile")

-----------------------------------------------------------------------------
(* C7: with remove_new_line_marker_from_end_of_file the output bytes are   *)
(* the same whether remove_trailing_empty_lines is set or not, for every   *)
(* input.                                                                  *)

WithOtherEmptyLinesRule(o) ==
    [o EXCEPT !.remove_trailing_empty_lines = ~@]

C7_RemoveEndOfFileImpliesEmptyLines ==
    (Done /\ options.remove_new_line_marker_from_end_of_file)
        => Output =
             ModifyContent(input_data,
                           WithOtherEmptyLinesRule(options)).writer.bytes

\* Without remove_trailing_empty_lines, the final marker went together with
\* an empty line before it.
C7_Witness ==
    /\ Done /\ run = 1 /\ NonTrivial
    /\ options.remove_new_line_marker_from_end_of_file
    /\ ~options.remove_trailing_empty_lines
    /\ Len(input_data) >= 3
    /\ input_data[Len(input_data)] = LINE_FEED
    /\ input_data[Len(input_data) - 1] = LINE_FEED
    /\ ~Occurs({CARRIAGE_RETURN, LINE_FEED}, Output)

-----------------------------------------------------------------------------
(* The lines of an input, read off the bytes (not by the scanner).         *)

\* A new line marker starts at byte k: a carriage return, or a line feed
\* that does not close a CR LF pair.
MarkerStartsAt(input, k) ==
    \/ input[k] = CARRIAGE_RETURN
    \/ input[k] = LINE_FEED /\ ~(k > 1 /\ input[k - 1] = CARRIAGE_RETURN)

MarkerStarts(input) == {k \in 1..Len(input) : MarkerStartsAt(input, k)}

MarkerKindAt(input, k) ==
    IF input[k] = LINE_FEED THEN "Linux"
    ELSE IF k < Len(input) /\ input[k + 1] = LINE_FEED THEN "Windows"
    ELSE "MacOs"

\* The number of the line that the marker starting at k terminates.
LineOfMarker(input, k) ==
    Cardinality({j \in MarkerStarts(input) : j <= k})

\* The first byte of the line that the marker starting at k terminates.
LineStart(input, k) ==
    LET before == {j \in MarkerStarts(input) : j < k}
    IN IF before = {} THEN 1
       ELSE LET j == CHOOSE x \in before : \A y \in before : y <= x
            IN j + (IF MarkerKindAt(input, j) = "Windows" THEN 2 ELSE 1)

\* Byte b of a line leaves a byte in the output line under options o.
LeavesByte(b, o) ==
    \/ ~IsWhitespaceByte(b)
    \/ /\ ~o.remove_trailing_whitespace
       /\ \/ b = SPACE
          \/ b = TAB /\ o.replace_tabs_with_spaces # 0
          \/ IsNonStandardByte(b)
               /\ o.normalize_non_standard_whitespace # "Remove"

\* The terminated lines of input that are not empty once the rules of o
\* have been applied to their bytes, by the marker that terminates each.
NonEmptyLineMarkers(input, o) ==
    {k \in MarkerStarts(input) :
        \E j \in LineStart(input, k)..(k - 1) : LeavesByte(input[j], o)}

\* The number of the last such line, 0 when there is none.
LastNonEmptyLine(input, o) ==
    Cardinality({j \in MarkerStarts(input) :
        \E k \in NonEmptyLineMarkers(input, o) : j <= k})

-----------------------------------------------------------------------------
(* C8: with remove_trailing_empty_lines, for an input that holds a         *)
(* non-whitespace byte: an output that ends with a new line marker has a   *)
(* non-empty line before that marker, and the change list holds at most    *)
(* one RemovedEmptyLines record, at the number of the last non-empty line  *)
(* plus one.                                                               *)

\* The length of the marker that ends w.
FinalMarkerLen(w) ==
    IF Len(w) >= 2 /\ w[Len(w)] = LINE_FEED /\ w[Len(w) - 1] = CARRIAGE_RETURN
    THEN 2 ELSE 1

EndsWithNonEmptyLine(w) ==
    /\ Len(w) > FinalMarkerLen(w)
    /\ ~IsNewLineByte(w[Len(w) - FinalMarkerLen(w)])

ChangesOfType(changes, type) ==
    {k \in 1..Len(changes) : changes[k].change_type = type}

C8_TrailingEmptyLinesRemoved ==
    (Done /\ NonTrivial /\ options.remove_trailing_empty_lines)
        => /\ EndsWithNewLineByte(Output) => EndsWithNonEmptyLine(Output)
           /\ Cardinality(ChangesOfType(Changes, "RemovedEmptyLines")) <= 1
           /\ \A k \in ChangesOfType(Changes, "RemovedEmptyLines") :
                 Changes[k].line_number
                     = LastNonEmptyLine(input_data, options) + 1

\* Two empty lines went, recorded once.
C8_Witness ==
    /\ Done /\ run = 1 /\ NonTrivial
    /\ options.remove_trailing_empty_lines
    /\ HasChange(Changes, "RemovedEmptyLines")
    /\ Len(input_data) >= 4
    /\ \A k \in (Len(input_data) - 2)..Len(input_data) :
          input_data[k] = LINE_FEED
    /\ EndsWithNonEmptyLine(Output)

-----------------------------------------------------------------------------
(* C9: with normalize_new_line_markers, for an input that holds a          *)
(* non-whitespace byte, every new line marker of the output is the         *)
(* resolved output marker, and ReplacedNewLineMarker(from, to) is recorded *)
(* for exactly the input markers of another kind, each at the number of    *)
(* the line it terminates, from its kind to the output marker.             *)

OnlyMarker(w, marker) ==
    CASE marker = "Linux" -> ~Occurs({CARRIAGE_RETURN}, w)
      [] marker = "MacOs" -> ~Occurs({LINE_FEED}, w)
      [] marker = "Windows" ->
            \A k \in 1..Len(w) :
               /\ w[k] = CARRIAGE_RETURN => (k < Len(w) /\ w[k + 1] = LINE_FEED)
               /\ w[k] = LINE_FEED => (k > 1 /\ w[k - 1] = CARRIAGE_RETURN)

\* The output marker of the run, from the options and the input bytes.
TargetMarker ==
    IF options.new_line_marker = "Auto"
    THEN engine.output_new_line_marker
    ELSE options.new_line_marker

\* The records expected for the markers of input that start at or after k.
RECURSIVE ExpectedReplacements(_, _, _)
ExpectedReplacements(input, k, target) ==
    IF k > Len(input) THEN <<>>
    ELSE (IF MarkerStartsAt(input, k) /\ MarkerKindAt(input, k) # target
          THEN <<Change(LineOfMarker(input, k), "ReplacedNewLineMarker",
                        <<MarkerKindAt(input, k), target>>)>>
          ELSE <<>>) \o ExpectedReplacements(input, k + 1, target)

IsReplacement(c) == c.change_type = "ReplacedNewLineMarker"

C9_NewLineMarkersNormalized ==
    (Done /\ NonTrivial /\ options.normalize_new_line_markers)
        => /\ OnlyMarker(Output, TargetMarker)
           /\ SelectSeq(Changes, IsReplacement)
                = ExpectedReplacements(input_data, 1, TargetMarker)

\* Markers of two kinds were replaced.
C9_Witness ==
    /\ Done /\ run = 1 /\ NonTrivial
    /\ options.normalize_new_line_markers
    /\ Len(SelectSeq(Changes, IsReplacement)) >= 2
    /\ SelectSeq(Changes, IsReplacement)[1].arg
         # SelectSeq(Changes, IsReplacement)[2].arg

-----------------------------------------------------------------------------
(* C10: find_most_common_new_line_marker counts a carriage return that a   *)
(* line feed follows once, as Windows, every other carriage return as      *)
(* MacOs and every other line feed as Linux, and returns the kind whose    *)
(* count is strictly greater than both others when there is one.           *)

MarkersOfKind(input, kind) ==
    Cardinality({k \in MarkerStarts(input) : MarkerKindAt(input, k) = kind})

StrictlyMostCommon(input, kind) ==
    \A other \in NewLineMarker \ {kind} :
        MarkersOfKind(input, kind) > MarkersOfKind(input, other)

C10_MostCommonNewLineMarker ==
    Done =>
    /\ CountNewLineMarkers(input_data, 0,
           [linux_count |-> 0, macos_count |-> 0, windows_count |-> 0])
         = [linux_count |-> MarkersOfKind(input_data, "Linux"),
            macos_count |-> MarkersOfKind(input_data, "MacOs"),
            windows_count |-> MarkersOfKind(input_data, "Windows")]
    /\ options.new_line_marker = "Auto"
         => \A kind \in NewLineMarker :
               StrictlyMostCommon(input_data, kind)
                   => engine.output_new_line_marker = kind

\* MacOs wins in an input that also holds a Windows marker.
C10_Witness ==
    /\ options.new_line_marker = "Auto"
    /\ pc = "done"
    /\ MarkersOfKind(input_data, "Windows") >= 1
    /\ StrictlyMostCommon(input_data, "MacOs")
    /\ engine.output_new_line_marker = "MacOs"

-----------------------------------------------------------------------------
(* C11: when the highest count is shared, find_most_common_new_line_marker *)
(* returns Linux before Windows before MacOs among the kinds that share    *)
(* it, and Linux for an input without any new line marker.                 *)

HighestCount(input) ==
    Max(MarkersOfKind(input, "Linux"),
        Max(MarkersOfKind(input, "Windows"), MarkersOfKind(input, "MacOs")))

\* The kinds whose count is the highest count.
MostCommonKinds(input) ==
    {kind \in NewLineMarker : MarkersOfKind(input, kind) = HighestCount(input)}

\* Linux before Windows before MacOs among kinds.
PreferredOf(kinds) ==
    IF "Linux" \in kinds THEN "Linux"
    ELSE IF "Windows" \in kinds THEN "Windows" ELSE "MacOs"

C11_TieBreakOrder ==
    (Done /\ options.new_line_marker = "Auto")
        => /\ engine.output_new_line_marker
                = PreferredOf(MostCommonKinds(input_data))
           /\ HighestCount(input_data) = 0
                => engine.output_new_line_marker = "Linux"

\* Windows and MacOs share the highest count, and Windows is returned.
C11_Witness ==
    /\ Done /\ options.new_line_marker = "Auto"
    /\ MostCommonKinds(input_data) = {"Windows", "MacOs"}
    /\ engine.output_new_line_marker = "Windows"

-----------------------------------------------------------------------------
(* C12: in Auto mode, whenever no kind has the strictly highest count, the *)
(* resolved marker is Linux.  As stated this is false of a tie between     *)
(* Windows and MacOs above Linux, which resolves to Windows; it holds of   *)
(* every tie that Linux is part of, the all-zero case included.            *)

NoStrictlyMostCommon(input) ==
    \A kind \in NewLineMarker : ~StrictlyMostCommon(input, kind)

\* The statement of the claim.
C12_LinuxWinsAllTies ==
    (Done /\ options.new_line_marker = "Auto"
          /\ NoStrictlyMostCommon(input_data))
        => engine.output_new_line_marker = "Linux"

\* The statement that holds: Linux wins the ties it is part of, and
\* Windows wins the tie between Windows and MacOs alone.
C12_LinuxWinsItsTies ==
    (Done /\ options.new_line_marker = "Auto"
          /\ NoStrictlyMostCommon(input_data))
        => engine.output_new_line_marker =
             (IF MarkersOfKind(input_data, "Linux") = HighestCount(input_data)
              THEN "Linux" ELSE "Windows")

\* Linux and MacOs share the highest count above Windows; Linux is returned.
C12_Witness ==
    /\ Done /\ options.new_line_marker = "Auto"
    /\ MarkersOfKind(input_data, "Linux") >= 1
    /\ MarkersOfKind(input_data, "Linux") = MarkersOfKind(input_data, "MacOs")
    /\ MarkersOfKind(input_data, "Windows") < MarkersOfKind(input_data, "Linux")
    /\ engine.output_new_line_marker = "Linux"

-----------------------------------------------------------------------------
(* The resolved marker and its bytes, read off the options and the input.  *)

\* The bytes of a marker kind.
MarkerSequence(kind) ==
    IF kind = "Linux" THEN <<LINE_FEED>>
    ELSE IF kind = "MacOs" THEN <<CARRIAGE_RETURN>>
    ELSE <<CARRIAGE_RETURN, LINE_FEED>>

\* The marker that o resolves to for input.
ResolvedKind(input, o) ==
    IF o.new_line_marker = "Auto"
    THEN PreferredOf(MostCommonKinds(input))
    ELSE o.new_line_marker

WhitespaceOnly == input_data # <<>> /\ is_file_whitespace(input_data)

-----------------------------------------------------------------------------
(* C13: for the empty input, normalize_empty_files Ignore or Empty gives   *)
(* an empty output and no change; OneLine gives exactly the resolved       *)
(* marker and the one change ReplacedEmptyFileWithOneLine at line 1; under *)
(* Auto the marker of the empty input is a line feed.                      *)

C13_EmptyFile ==
    (Done /\ input_data = <<>>)
        => IF options.normalize_empty_files = "OneLine"
           THEN /\ Output = MarkerSequence(ResolvedKind(input_data, options))
                /\ Changes = <<Change(1, "ReplacedEmptyFileWithOneLine", <<>>)>>
                /\ options.new_line_marker = "Auto" => Output = <<LINE_FEED>>
           ELSE Output = <<>> /\ Changes = <<>>

\* The empty file became one Windows line.
C13_Witness ==
    /\ Done /\ input_data = <<>>
    /\ options.normalize_empty_files = "OneLine"
    /\ options.new_line_marker = "Windows"
    /\ Output = <<CARRIAGE_RETURN, LINE_FEED>>

-----------------------------------------------------------------------------
(* C14: for a non-empty input of whitespace bytes only,                    *)
(* normalize_whitespace_only_files Ignore gives the input and no change;   *)
(* Empty gives no byte and the one change                                  *)
(* ReplacedWhiteSpaceOnlyFileWithEmptyFile at line 1; OneLine gives        *)
(* exactly the resolved marker.                                            *)

C14_WhitespaceOnlyFile ==
    (Done /\ WhitespaceOnly)
        => CASE options.normalize_whitespace_only_files = "Ignore" ->
                   Output = input_data /\ Changes = <<>>
             [] options.normalize_whitespace_only_files = "Empty" ->
                   /\ Output = <<>>
                   /\ Changes = <<Change(1,
                          "ReplacedWhiteSpaceOnlyFileWithEmptyFile", <<>>)>>
             [] options.normalize_whitespace_only_files = "OneLine" ->
                   Output = MarkerSequence(ResolvedKind(input_data, options))

\* A file of a tab, a form feed and a carriage return was emptied.
C14_Witness ==
    /\ Done /\ WhitespaceOnly
    /\ options.normalize_whitespace_only_files = "Empty"
    /\ Occurs({TAB}, input_data)
    /\ Occurs({FORM_FEED}, input_data)
    /\ Occurs({CARRIAGE_RETURN}, input_data)
    /\ Output = <<>> /\ Changes # <<>>

-----------------------------------------------------------------------------
(* C15: for a whitespace-only input under OneLine,                         *)
(* ReplacedWhiteSpaceOnlyFileWithOneLine is recorded exactly when the      *)
(* input is not already the resolved marker; when it is, the output is the *)
(* input and the change list is empty, under Auto too.                     *)

C15_OneLineGuard ==
    (Done /\ WhitespaceOnly
          /\ options.normalize_whitespace_only_files = "OneLine")
        => IF input_data = MarkerSequence(ResolvedKind(input_data, options))
           THEN Output = input_data /\ Changes = <<>>
           ELSE Changes = <<Change(1,
                    "ReplacedWhiteSpaceOnlyFileWithOneLine", <<>>)>>

\* Under Auto a file that is one Windows marker stays as it is.
C15_Witness ==
    /\ Done /\ run = 1
    /\ options.normalize_whitespace_only_files = "OneLine"
    /\ options.new_line_marker = "Auto"
    /\ input_data = <<CARRIAGE_RETURN, LINE_FEED>>
    /\ Output = input_data /\ Changes = <<>>

-----------------------------------------------------------------------------
(* C16: for an empty or whitespace-only input the output and the change    *)
(* list depend on the trivial-file policies and the resolved marker alone: *)
(* they are what the same options with every other rule off give; a        *)
(* whitespace-only input under Ignore is left as it is, without a change,  *)
(* whatever other rules are set.                                           *)

\* The options o with every rule off but the trivial-file policies and the
\* output marker mode.
OtherRulesOff(o) ==
    [o EXCEPT !.add_new_line_marker_at_end_of_file = FALSE,
              !.remove_new_line_marker_from_end_of_file = FALSE,
              !.normalize_new_line_markers = FALSE,
              !.remove_trailing_whitespace = FALSE,
              !.remove_trailing_empty_lines = FALSE,
              !.replace_tabs_with_spaces = -1,
              !.normalize_non_standard_whitespace = "Ignore"]

C16_TrivialFileBypass ==
    (Done /\ is_file_whitespace(input_data))
        => /\ Output =
                ModifyContent(input_data, OtherRulesOff(options)).writer.bytes
           /\ Changes = ModifyContent(input_data, OtherRulesOff(options)).changes
           /\ (input_data # <<>>
               /\ options.normalize_whitespace_only_files = "Ignore")
                 => (Output = input_data /\ Changes = <<>>)

\* Every rule is on, and a file of a tab, a space and two line feeds is
\* left as it is.
C16_Witness ==
    /\ Done /\ run = 1 /\ WhitespaceOnly
    /\ options.normalize_whitespace_only_files = "Ignore"
    /\ options.remove_trailing_whitespace
    /\ options.remove_trailing_empty_lines
    /\ options.normalize_new_line_markers
    /\ options.replace_tabs_with_spaces = 0
    /\ options.new_line_marker = "Windows"
    /\ Occurs({TAB}, input_data)
    /\ Len(input_data) >= 3
    /\ input_data[Len(input_data)] = LINE_FEED
    /\ input_data[Len(input_data) - 1] = LINE_FEED
    /\ Output = input_data /\ Changes = <<>>

-----------------------------------------------------------------------------
(* C17: with every rule off and both trivial-file policies Ignore,         *)
(* modify_content copies every byte of the input, whatever markers it      *)
(* mixes, and returns an empty change list.                                *)

EveryRuleOff(o) ==
    /\ o = OtherRulesOff(o)
    /\ o.normalize_empty_files = "Ignore"
    /\ o.normalize_whitespace_only_files = "Ignore"

C17_DoNothing ==
    (Done /\ EveryRuleOff(options))
        => Output = input_data /\ Changes = <<>>

\* Markers of two kinds, a blank before a marker and an empty last line
\* were copied, under Auto.
C17_Witness ==
    /\ Done /\ run = 1 /\ NonTrivial
    /\ EveryRuleOff(options)
    /\ options.new_line_marker = "Auto"
    /\ MarkersOfKind(input_data, "Windows") = 1
    /\ MarkersOfKind(input_data, "MacOs") = 1
    /\ Output = input_data /\ Changes = <<>>

-----------------------------------------------------------------------------
(* Per-byte rules: what is expected of the bytes of a kind, read off the   *)
(* input.                                                                  *)

\* The number of the line that holds byte k of input.
LineOfByte(input, k) ==
    1 + Cardinality({j \in MarkerStarts(input) : j < k})

\* One record of change_type at the line of every byte of input, from byte
\* k on, that is in bytes; with_byte: the record carries the byte.
RECURSIVE ExpectedByteRecords(_, _, _, _, _)
ExpectedByteRecords(input, k, bytes, change_type, with_byte) ==
    IF k > Len(input) THEN <<>>
    ELSE (IF input[k] \in bytes
          THEN <<Change(LineOfByte(input, k), change_type,
                        IF with_byte THEN <<input[k]>> ELSE <<>>)>>
          ELSE <<>>)
         \o ExpectedByteRecords(input, k + 1, bytes, change_type, with_byte)

\* input from byte k on, with replacement in the place of every byte that
\* is in bytes.
RECURSIVE WithBytesReplaced(_, _, _, _)
WithBytesReplaced(input, k, bytes, replacement) ==
    IF k > Len(input) THEN <<>>
    ELSE (IF input[k] \in bytes THEN replacement ELSE <<input[k]>>)
         \o WithBytesReplaced(input, k + 1, bytes, replacement)

\* No rule that rewinds the writer or rewrites a marker is set.
NoLineRule(o) ==
    /\ ~o.add_new_line_marker_at_end_of_file
    /\ ~o.remove_new_line_marker_from_end_of_file
    /\ ~o.normalize_new_line_markers
    /\ ~o.remove_trailing_whitespace
    /\ ~o.remove_trailing_empty_lines

-----------------------------------------------------------------------------
(* C18: for an input that holds a non-whitespace byte, a negative          *)
(* replace_tabs_with_spaces copies every tab and records nothing for it; a *)
(* positive N writes N spaces for every tab and records                    *)
(* ReplacedTabWithSpaces once per tab; 0 drops every tab and records       *)
(* RemovedTab once per tab; each record is at the line of its tab, and     *)
(* with a policy of 0 or more the output holds no tab.                     *)

IsTabChange(c) == c.change_type \in {"ReplacedTabWithSpaces", "RemovedTab"}

C18_TabPolicy ==
    (Done /\ NonTrivial)
        => LET n == options.replace_tabs_with_spaces
           IN /\ SelectSeq(Changes, IsTabChange) =
                   (IF n < 0 THEN <<>>
                    ELSE ExpectedByteRecords(input_data, 1, {TAB},
                            IF n > 0 THEN "ReplacedTabWithSpaces"
                            ELSE "RemovedTab", FALSE))
              /\ n >= 0 => ~Occurs({TAB}, Output)
              /\ (NoLineRule(options)
                  /\ options.normalize_non_standard_whitespace = "Ignore")
                    => Output = WithBytesReplaced(input_data, 1, {TAB},
                                  IF n < 0 THEN <<TAB>>
                                  ELSE [j \in 1..n |-> SPACE])

\* A tab on the second line was replaced by more than one space, with one
\* record at line 2.
C18_Witness ==
    /\ Done /\ run = 1 /\ NonTrivial
    /\ options.replace_tabs_with_spaces > 1
    /\ SelectSeq(Changes, IsTabChange)
         = <<Change(2, "ReplacedTabWithSpaces", <<>>)>>
    /\ Len(Output)
         = Len(input_data) + options.replace_tabs_with_spaces - 1

-----------------------------------------------------------------------------
(* C19: for an input that holds a non-whitespace byte,                     *)
(* normalize_non_standard_whitespace Ignore copies every vertical tab and  *)
(* form feed and records nothing; ReplaceWithSpace writes one space for    *)
(* each and records ReplacedNonstandardWhitespaceBySpace with the byte     *)
(* read; Remove writes nothing and records RemovedNonstandardWhitespace    *)
(* with the byte read; one record per occurrence, in input order, and      *)
(* under the last two the output holds no vertical tab or form feed.       *)

NonStandardBytes == {VERTICAL_TAB, FORM_FEED}

IsNonStandardChange(c) ==
    c.change_type \in {"ReplacedNonstandardWhitespaceBySpace",
                       "RemovedNonstandardWhitespace"}

C19_NonStandardWhitespacePolicy ==
    (Done /\ NonTrivial)
        => LET mode == options.normalize_non_standard_whitespace
           IN /\ SelectSeq(Changes, IsNonStandardChange) =
                   (IF mode = "Ignore" THEN <<>>
                    ELSE ExpectedByteRecords(input_data, 1, NonStandardBytes,
                            IF mode = "ReplaceWithSpace"
                            THEN "ReplacedNonstandardWhitespaceBySpace"
                            ELSE "RemovedNonstandardWhitespace", TRUE))
              /\ mode # "Ignore" => ~Occurs(NonStandardBytes, Output)
              /\ (NoLineRule(options) /\ options.replace_tabs_with_spaces < 0)
                    => Output =
                         (IF mode = "Ignore" THEN input_data
                          ELSE WithBytesReplaced(input_data, 1,
                                  NonStandardBytes,
                                  IF mode = "ReplaceWithSpace"
                                  THEN <<SPACE>> ELSE <<>>))

\* A vertical tab and a form feed were replaced, in this order.
C19_Witness ==
    /\ Done /\ run = 1 /\ NonTrivial
    /\ options.normalize_non_standard_whitespace = "ReplaceWithSpace"
    /\ Len(SelectSeq(Changes, IsNonStandardChange)) = 2
    /\ SelectSeq(Changes, IsNonStandardChange)[1].arg = <<VERTICAL_TAB>>
    /\ SelectSeq(Changes, IsNonStandardChange)[2].arg = <<FORM_FEED>>
    /\ Occurs({SPACE}, Output)

-----------------------------------------------------------------------------
(* C20: in every run of modify_content every call writer.rewind(p) is made *)
(* with p at or before the writer's position, and p is the value of one of *)
(* the four recorded positions: last_non_whitespace, the last end of line, *)
(* or the end of the last non-empty line with or without its marker.       *)

C20_RewindPrecondition ==
    \A k \in 1..Len(engine.rewinds) :
        /\ engine.rewinds[k].previous_position <= engine.rewinds[k].position
        /\ engine.rewinds[k].previous_position
             \in engine.rewinds[k].checkpoints

\* The writer was rewound three times in one run (in the trace found: in
\* the loop, for the trailing empty lines, and for the marker at the end of
\* the file), each time to a position before its own.
C20_Witness ==
    /\ Done /\ run = 1
    /\ Len(engine.rewinds) >= 3
    /\ \A k \in 1..Len(engine.rewinds) :
          engine.rewinds[k].previous_position < engine.rewinds[k].position

-----------------------------------------------------------------------------
(* C21: the write policy of process_file                                   *)

\* What modify_content gives for the bytes a file held before the run: the
\* changes of the counting pass and the bytes of the real pass.
CountedChanges(p) ==
    ModifyContentWith(file_system[p].original, options, CountingWriterNew).changes

EngineOutput(p) == ModifyContent(file_system[p].original, options).writer.bytes

WritesTo(p) == SelectSeq(writes, LAMBDA w : w.path = p)

\* C21: with check_only no file is ever written; without it a file is
\* written if and only if the changes of the counting pass are not empty,
\* once, with the bytes modify_content gives for the bytes the file held;
\* and process_file returns the changes of the counting pass either way.
C21_WritePolicy ==
    /\ check_only =>
         /\ writes = <<>>
         /\ \A p \in PathSet : file_system[p].content = file_system[p].original
    /\ \A k \in 1..Len(writes) :
         /\ CountedChanges(writes[k].path) # <<>>
         /\ writes[k].bytes = EngineOutput(writes[k].path)
    /\ \A p \in PathSet :
         returned[p] # <<>> =>
           LET changes == CountedChanges(p)
               bytes == EngineOutput(p)
           IN /\ returned[p] = <<changes>>
              /\ ~check_only =>
                   IF changes # <<>>
                   THEN /\ WritesTo(p) = <<[path |-> p, bytes |-> bytes]>>
                        /\ file_system[p].content = bytes
                   ELSE /\ WritesTo(p) = <<>>
                        /\ file_system[p].content = file_system[p].original

\* Without check_only, the first file had trailing whitespace and has been
\* written without it, and the second file, which holds bytes, had nothing to
\* change and has not been written.
C21_Witness ==
    /\ ~check_only
    /\ returned["a.txt"] # <<>> /\ returned["a.txt"][1] # <<>>
    /\ returned["b.txt"] = << <<>> >>
    /\ file_system["b.txt"].original # <<>>
    /\ Len(writes) = 1
    /\ writes[1].path = "a.txt"
    /\ writes[1].bytes # file_system["a.txt"].original

-----------------------------------------------------------------------------
(* C22: the counting pass and the real pass                                *)

\* modify_content on the same input and options with a CountingWriter.
CountingRun == ModifyContentWith(input_data, options, CountingWriterNew)

\* C22: modify_content calls the CountingWriter and the Vec with the same
\* operations in the same order, the two positions agree after each of them,
\* the two lists of changes are equal, and the Vec is never longer than the
\* maximum_position of the counting pass.
C22_Lockstep ==
    Done =>
      LET counting == CountingRun
          real == engine.writer.history
      IN /\ counting.writer.history = real
         /\ counting.changes = Changes
         /\ \A k \in 1..Len(real) :
              real[k].position <= counting.writer.maximum_position
         /\ Len(Output) <= counting.writer.maximum_position

\* A run that wrote, rewound to an earlier position and ended below the
\* maximum position of the counting pass.
C22_Witness ==
    /\ Done
    /\ \E k \in 2..Len(engine.writer.history) :
         /\ engine.writer.history[k].op = "rewind"
         /\ engine.writer.history[k].position
              < engine.writer.history[k - 1].position
    /\ Len(Output) < CountingRun.writer.maximum_position

-----------------------------------------------------------------------------
(* C23: a file that cannot be read or written                              *)

\* The process has exited with a code that is not zero.
ExitedNonZero == pc = "exited" /\ exit_code # <<>> /\ exit_code[1] # 0

\* The real pass is at a file on which fs::write of its bytes fails.
WriteFails ==
    /\ pc = "real_pass"
    /\ ~WriteSucceeds(file_system[CurrentPath],
                      ModifyContent(input_data, options).writer.bytes)

\* C23: when fs::read fails, the step ends the process with a non-zero
\* exit code, writes no file and returns no changes for the file; when
\* fs::write fails, the step likewise ends the process with a non-zero
\* exit code, returns no changes and leaves every other file alone; and an
\* exited process takes no further step, so the file is not skipped and no
\* later file is processed.
C23_IoFailureIsFatal ==
    [][ /\ (pc = "read" /\ ~file_system[CurrentPath].readable) =>
             /\ ExitedNonZero'
             /\ returned'[CurrentPath] = <<>>
             /\ UNCHANGED <<file_system, writes, returned, remaining, current>>
        /\ WriteFails =>
             /\ ExitedNonZero'
             /\ returned'[CurrentPath] = <<>>
             /\ UNCHANGED <<writes, returned, remaining, current>>
             /\ \A p \in PathSet \ {CurrentPath} :
                    file_system'[p] = file_system[p]
        /\ pc # "exited" ]_vars

\* The first file cannot be read: the process has exited in process_file
\* of that file, nothing is written or returned, and the second file, which
\* has trailing whitespace to remove, is left as it was.
C23_Witness ==
    /\ ExitedNonZero
    /\ current = <<"a.txt">>
    /\ ~file_system["a.txt"].readable
    /\ remaining = <<"b.txt">>
    /\ ~check_only
    /\ file_system["b.txt"].writable
    /\ CountedChanges("b.txt") # <<>>
    /\ writes = <<>>
    /\ \A p \in PathSet : returned[p] = <<>>

-----------------------------------------------------------------------------
(* C24: validate                                                           *)

\* The pair of policies the claim names.
RejectedPolicies ==
    /\ options.normalize_whitespace_only_files = "Empty"
    /\ options.normalize_empty_files = "OneLine"

\* C24: validate ends the process with an error exactly when
\* normalize_whitespace_only_files is Empty and normalize_empty_files is
\* OneLine, and lets every other pair of the two policies through; with the
\* rejected pair no step but that of validate is ever taken, so no file is
\* processed.
C24_Validation ==
    [][ /\ pc = "validate" =>
             IF RejectedPolicies
             THEN /\ ExitedNonZero'
                  /\ UNCHANGED <<file_system, writes, returned, remaining,
                                 current>>
             ELSE pc' = "next_file" /\ exit_code' = <<>>
        /\ RejectedPolicies => pc = "validate" ]_vars

\* The rejected pair of policies: the process has exited with clap's error
\* code before the first file, which is empty and would have become one
\* line, is taken.
C24_Witness ==
    /\ pc = "exited"
    /\ exit_code = <<USAGE_CODE>>
    /\ RejectedPolicies
    /\ remaining = Paths
    /\ file_system["a.txt"].readable
    /\ file_system["a.txt"].content = <<>>
    /\ CountedChanges("a.txt") # <<>>
    /\ writes = <<>>
    /\ \A p \in PathSet : returned[p] = <<>>

-----------------------------------------------------------------------------
(* C25: line numbers of the changes                                        *)

\* C25: every change modify_content has recorded, at any point of any run,
\* carries a line number that is a positive integer.
C25_PositiveLineNumbers ==
    \A k \in 1..Len(Changes) :
        Changes[k].line_number \in Nat /\ Changes[k].line_number >= 1

\* A finished run whose last step took the line number of its record from
\* last_non_empty_line_number, which starts at 0: the marker at the end of
\* the file has been removed, after an empty first line.
C25_Witness ==
    /\ Done
    /\ NonTrivial
    /\ input_data[1] \in {CARRIAGE_RETURN, LINE_FEED}
    /\ Changes # <<>>
    /\ Last(Changes).change_type = "NewLineMarkerRemovedFromEndOfFile"

-----------------------------------------------------------------------------
(* C26: symbolic links without follow_symlinks                             *)

\* C26: without follow_symlinks, the step of discover_files at a path that
\* is a symbolic link, whatever the link points to, goes on to the next path
\* with no file and no directory added and without the process exiting.
C26_SymlinksIgnored ==
    [][ (Examining /\ ~follow_symlinks /\ PathIsSymlink(ExaminedPath)) =>
          /\ pc' = "examine"
          /\ exit_code' = <<>>
          /\ discovery' = NextPath ]_vars

-----------------------------------------------------------------------------
(* C27: the order of the four steps after the loop                         *)

\* The changes recorded by the loop alone, and those recorded after it.
ScanChanges ==
    ScanAll(Locals(ResolveNewLineMarker(input_data, options)),
            input_data, options).changes

PostChanges == SubSeq(Changes, Len(ScanChanges) + 1, Len(Changes))

\* The step that records a change type after the loop, 0 for the others.
PostStep(change_type) ==
    CASE change_type = "RemovedTrailingWhitespace" -> 1
      [] change_type = "RemovedEmptyLines" -> 2
      [] change_type = "NewLineMarkerAddedToEndOfFile" -> 3
      [] change_type = "NewLineMarkerRemovedFromEndOfFile" -> 4
      [] OTHER -> 0

InPostOrder(post) ==
    /\ \A k \in 1..Len(post) : PostStep(post[k].change_type) >= 1
    /\ \A j, k \in 1..Len(post) :
         j < k => PostStep(post[j].change_type) < PostStep(post[k].change_type)

\* The step leaves the changes alone or appends one, of the given type.
RecordsAtMostOne(change_type) ==
    \/ Changes' = Changes
    \/ /\ Len(Changes') = Len(Changes) + 1
       /\ SubSeq(Changes', 1, Len(Changes)) = Changes
       /\ Last(Changes').change_type = change_type

\* C27: once the loop has read every byte, steps 1 to 4 run in this order,
\* each recording at most one change, of its own type; so the changes
\* returned for a non-trivial input are those of the loop followed by the
\* changes of the steps in the order trailing whitespace, empty lines,
\* marker added or removed at the end of the file.
C27_PostProcessingOrder ==
    [][ /\ (pc = "scan" /\ pc' # "scan") =>
             /\ engine.i = Len(input_data)
             /\ Changes = ScanChanges
             /\ pc' = "empty_lines"
             /\ RecordsAtMostOne("RemovedTrailingWhitespace")
        /\ pc = "empty_lines" =>
             pc' = "add_eof" /\ RecordsAtMostOne("RemovedEmptyLines")
        /\ pc = "add_eof" =>
             pc' = "remove_eof"
             /\ RecordsAtMostOne("NewLineMarkerAddedToEndOfFile")
        /\ pc = "remove_eof" =>
             /\ pc' = "done"
             /\ RecordsAtMostOne("NewLineMarkerRemovedFromEndOfFile")
             /\ SubSeq(Changes', 1, Len(ScanChanges)) = ScanChanges
             /\ InPostOrder(SubSeq(Changes', Len(ScanChanges) + 1,
                                    Len(Changes'))) ]_vars

\* A finished run with a change of the loop followed by the changes of
\* steps 2 and 4.
C27_Witness ==
    /\ Done
    /\ NonTrivial
    /\ ScanChanges # <<>>
    /\ Len(PostChanges) = 2
    /\ PostChanges[1].change_type = "RemovedEmptyLines"
    /\ PostChanges[2].change_type = "NewLineMarkerRemovedFromEndOfFile"

-----------------------------------------------------------------------------
(* C28: the line number of the removed end-of-file marker                  *)

\* C28: when step 4 has removed the marker at the end of a non-trivial
\* input, its change carries the number of the last line of the output: one
\* plus the number of markers of the output, a carriage return followed by
\* a line feed read as one.
C28_EndOfFileMarkerRemovedLine ==
    (/\ Done
     /\ NonTrivial
     /\ HasChange(Changes, "NewLineMarkerRemovedFromEndOfFile"))
    => Last(Changes).line_number = 1 + Cardinality(MarkerStarts(Output))

-----------------------------------------------------------------------------
(* C29: the order of the checkpoints                                       *)

\* C29: at every point of a run on a non-trivial input, in the loop and
\* after each of the four steps that follow it, the checkpoints are ordered
\* last_end_of_non_empty_line_excluding_eol_marker <=
\* last_end_of_non_empty_line_including_eol_marker <=
\* last_end_of_line_including_eol_marker <= writer.position(), and
\* last_non_whitespace <= writer.position().
C29_CheckpointOrder ==
    NonTrivial =>
      /\ engine.last_end_of_non_empty_line_excluding_eol_marker
           <= engine.last_end_of_non_empty_line_including_eol_marker
      /\ engine.last_end_of_non_empty_line_including_eol_marker
           <= engine.last_end_of_line_including_eol_marker
      /\ engine.last_end_of_line_including_eol_marker
           <= WriterPosition(engine.writer)
      /\ engine.last_non_whitespace <= WriterPosition(engine.writer)

-----------------------------------------------------------------------------
(* C30: the lines of the input and of the output                           *)

\* No rule that removes lines or changes the end of the file is on.
NoEndRule(o) ==
    /\ ~o.remove_trailing_empty_lines
    /\ ~o.add_new_line_marker_at_end_of_file
    /\ ~o.remove_new_line_marker_from_end_of_file

\* The loop has read every byte and no step after it has run yet.
EndOfScan == pc = "scan" /\ engine.i = Len(input_data)

\* C30: for a non-trivial input with no empty-line or end-of-file rule on,
\* the bytes written when the loop ends, and the output returned, a carriage
\* return followed by a line feed read as one marker, hold as many markers
\* as the input, one for each the loop met: no removal of bytes puts the
\* carriage return of one line next to the line feed of the next.
C30_LineStructurePreserved ==
    (NonTrivial /\ NoEndRule(options) /\ (EndOfScan \/ Done))
    => Cardinality(MarkerStarts(Output)) = Cardinality(MarkerStarts(input_data))

-----------------------------------------------------------------------------
(* C31: the bytes that are not whitespace                                  *)

\* The bytes of a sequence that are none of the six whitespace bytes, in
\* their order.
NonWhitespace(bytes) == SelectSeq(bytes, LAMBDA b : ~IsWhitespaceByte(b))

\* C31: the bytes of the output that are not whitespace are those of the
\* input, the same bytes in the same order, none dropped and none added.
C31_NonWhitespaceKept ==
    Done => NonWhitespace(Output) = NonWhitespace(input_data)

\* A finished run that removed bytes by a rewind and kept two different
\* non-whitespace bytes in their order.
C31_Witness ==
    /\ Done
    /\ NonWhitespace(Output) = <<OTHER_LETTER, LETTER>>
    /\ Len(Output) < Len(input_data)
    /\ engine.rewinds # <<>>

-----------------------------------------------------------------------------
(* C32: trailing whitespace and trailing empty lines together              *)

\* The bytes after the last byte that is not whitespace.
AfterLastNonWhitespace(w) ==
    LET at == {k \in 1..Len(w) : ~IsWhitespaceByte(w[k])}
        last == IF at = {} THEN 0 ELSE CHOOSE k \in at : \A j \in at : j <= k
    IN SubSeq(w, last + 1, Len(w))

BothRemovals(o) ==
    o.remove_trailing_whitespace /\ o.remove_trailing_empty_lines

\* C32: with remove_trailing_whitespace and remove_trailing_empty_lines, a
\* line of whitespace is an empty line once its whitespace is removed: the
\* output of a non-trivial input holds nothing or one single marker after
\* its last non-whitespace byte.
C32_WhitespaceLinesAreEmpty ==
    (Done /\ NonTrivial /\ BothRemovals(options))
    => AfterLastNonWhitespace(Output)
         \in {<<>>, <<LINE_FEED>>, <<CARRIAGE_RETURN>>,
              <<CARRIAGE_RETURN, LINE_FEED>>}

\* A line of whitespace after the last non-empty line has lost its
\* whitespace and then been removed as an empty line; one marker is left.
C32_Witness ==
    /\ Done
    /\ NonTrivial
    /\ BothRemovals(options)
    /\ HasChange(Changes, "RemovedTrailingWhitespace")
    /\ HasChange(Changes, "RemovedEmptyLines")
    /\ AfterLastNonWhitespace(Output) = <<LINE_FEED>>
    /\ Len(input_data) >= 4
    /\ IsNewLineByte(input_data[Len(input_data) - 2])
    /\ input_data[Len(input_data) - 1] \in {SPACE, TAB}
    /\ IsNewLineByte(input_data[Len(input_data)])

-----------------------------------------------------------------------------
(* C33: no fixed point under the rejected pair of policies                 *)

\* C33: with normalize_empty_files OneLine and
\* normalize_whitespace_only_files Empty, the calls of modify_content that
\* start from the empty file take turns: an odd call is given no bytes and
\* writes the one marker, an even call is given that marker and writes no
\* bytes; each call records one change and none returns its input.
C33_NoFixedPoint ==
    Done =>
      /\ Len(Changes) = 1
      /\ Output # input_data
      /\ IF run % 2 = 1
         THEN /\ input_data = <<>>
              /\ Output = MarkerSequence(ResolvedKind(<<>>, options))
         ELSE /\ input_data = MarkerSequence(ResolvedKind(<<>>, options))
              /\ Output = <<>>

\* The third call in a row: it is given the empty file again and has
\* written the marker again.
C33_Witness ==
    /\ Done
    /\ run = 3
    /\ input_data = <<>>
    /\ Output # <<>>
    /\ Len(Changes) = 1

-----------------------------------------------------------------------------
(* C34: the line numbers of the records of the loop                        *)

\* The markers among the first n bytes of the input, a CARRIAGE_RETURN and
\* the LINE_FEED after it counting as one.
RECURSIVE MarkersFrom(_, _, _)
MarkersFrom(input, k, n) ==
    IF k >= n THEN 0
    ELSE IF /\ input[k + 1] = CARRIAGE_RETURN
            /\ k + 2 <= Len(input)
            /\ input[k + 2] = LINE_FEED
         THEN 1 + MarkersFrom(input, k + 2, n)
         ELSE IF IsNewLineByte(input[k + 1])
              THEN 1 + MarkersFrom(input, k + 1, n)
              ELSE MarkersFrom(input, k + 1, n)

MarkersDecoded(input, n) == MarkersFrom(input, 0, n)

NonDecreasing(changes) ==
    \A k \in 1..(Len(changes) - 1) :
        changes[k].line_number <= changes[k + 1].line_number

\* The records a step adds carry the given line number.
AddedCarry(before, after, line_number) ==
    /\ Len(after) >= Len(before)
    /\ SubSeq(after, 1, Len(before)) = before
    /\ \A k \in (Len(before) + 1)..Len(after) :
           after[k].line_number = line_number

\* C34: at every pass of the loop line_number is one plus the number of
\* markers decoded so far (1 at the start, a CRLF counted once), the
\* records the pass adds carry the line number it started with, and the
\* records of the loop are in non-decreasing order of line number.
C34_LineNumbers ==
    [][ (InLoop /\ engine' # engine) =>
          /\ engine.line_number = 1 + MarkersDecoded(input_data, engine.i)
          /\ engine'.line_number =
                 1 + MarkersDecoded(input_data, engine'.i)
          /\ AddedCarry(engine.changes, engine'.changes, engine.line_number)
          /\ NonDecreasing(engine'.changes) ]_vars

\* The input starts with a CRLF; the loop recorded a change on line 1 and
\* then, for a byte after the CRLF, a change on line 2.
C34_Witness ==
    /\ Done
    /\ Len(input_data) >= 3
    /\ input_data[1] = CARRIAGE_RETURN
    /\ input_data[2] = LINE_FEED
    /\ Len(ScanChanges) >= 2
    /\ ScanChanges[1].line_number = 1
    /\ ScanChanges[Len(ScanChanges)].line_number = 2
    /\ ScanChanges[Len(ScanChanges)].change_type # "ReplacedNewLineMarker"

-----------------------------------------------------------------------------
(* C35: the CountingWriter counts what a Vec would hold                    *)

\* m is the largest position the calls in history have left, 0 for none.
LargestPosition(history, m) ==
    /\ \A k \in 1..Len(history) : history[k].position <= m
    /\ \/ m = 0
       \/ \E k \in 1..Len(history) : history[k].position = m

\* The two writers after the same calls.
CountingAgrees(vec, counting) ==
    /\ counting.position = Len(vec.bytes)
    /\ WriterPosition(counting) = WriterPosition(vec)
    /\ counting.position <= counting.maximum_position
    /\ LargestPosition(counting.history, counting.maximum_position)

\* C35: after any calls of write, write_bytes and rewind (to positions not
\* after the current one) the CountingWriter's position is the length of
\* the Vec given the same calls, position <= maximum_position,
\* maximum_position is the largest position reached so far, and no call,
\* rewind included, lowers maximum_position.
C35_CountingWriter ==
    [][ pc' = "writer" =>
          /\ CountingAgrees(engine'.vec, engine'.counting)
          /\ engine'.counting.maximum_position
                 >= engine.counting.maximum_position ]_vars

\* A rewind has left the position below maximum_position, and a write
\* after it has not.
C35_Witness ==
    /\ pc = "writer"
    /\ Len(engine.counting.history) = MaxCalls
    /\ engine.counting.history[1].op = "write"
    /\ engine.counting.history[2].op = "write_bytes"
    /\ engine.counting.history[3].op = "rewind"
    /\ engine.counting.history[3].position < engine.counting.history[2].position
    /\ engine.counting.history[4].op = "write"
    /\ engine.counting.position < engine.counting.maximum_position
    /\ engine.counting.maximum_position = 3
    /\ engine.vec.bytes = <<LETTER, LINE_FEED>>

-----------------------------------------------------------------------------
(* C36: what discover_files returns                                        *)

\* The paths given to discover_files.
Given == {discovery.given_paths[k] : k \in 1..Len(discovery.given_paths)}

\* The paths the search comes to: the given ones, and the entries of the
\* directories it comes to and does not skip.
RECURSIVE Searched(_)
Searched(path) ==
    IF Len(path) = 1 THEN path \in Given
    ELSE /\ Searched(Parent(path))
         /\ tree[Parent(path)].kind = "dir"
         /\ ~IsIgnoredSymlink(Parent(path))
         /\ tree[path] # NoEntry

\* The regular files among them.
ReachableFiles ==
    { path \in TreePaths : /\ Searched(path)
                           /\ ~IsIgnoredSymlink(path)
                           /\ PathIsFile(path) }

StrictlyAscending(files) ==
    \A i, j \in 1..Len(files) : i < j => PathLess(files[i], files[j])

Terminated == pc \in {"discovered", "exited"}

\* What discover_files has returned.
ReturnedFiles ==
    pc = "discovered" =>
      /\ {discovery.files[k] : k \in 1..Len(discovery.files)} = ReachableFiles
      /\ StrictlyAscending(discovery.files)
      /\ \A path \in TreePaths : Searched(path) => PathExists(path)

\* C36: discover_files returns the regular files the level-by-level search
\* comes to, each once and in ascending order; a path that does not exist
\* ends the process with the code of die, so that nothing is returned when
\* a path the search comes to does not exist; and without follow_symlinks
\* every call comes to an end, returning or ending the process.
C36_Discovery ==
    /\ []ReturnedFiles
    /\ [][ (Examining /\ ~PathExists(ExaminedPath)) =>
             (pc' = "exited" /\ exit_code' = <<DIE_CODE>>) ]_vars
    /\ <>(~follow_symlinks => Terminated)

\* Both given paths are the same directory of two files, found twice each
\* in the order opposite to the names', and returned once each in
\* ascending order.
C36_Witness ==
    /\ pc = "discovered"
    /\ ~follow_symlinks
    /\ discovery.given_paths = << <<"a">>, <<"a">> >>
    /\ discovery.paths = << <<"a", "y">>, <<"a", "x">>,
                            <<"a", "y">>, <<"a", "x">> >>
    /\ discovery.files = << <<"a", "x">>, <<"a", "y">> >>

-----------------------------------------------------------------------------
(* C37: exclude_files is a filter that keeps the order                     *)

\* The paths of a list whose string the expression does not match, in the
\* order of the list; a path without a string matches nothing.
NotMatching(paths, regex) ==
    SelectSeq(paths, LAMBDA path :
        ToStr(path) = <<"None">> \/ ~IsMatch(regex, ToStr(path)[2]))

\* C37: exclude_files, called with a compiled regular expression, returns
\* for every list of paths the paths whose string the expression does not
\* match, in the order of the list, and the list itself when the expression
\* is the unmatchable one; the process ends only when the text given to
\* compile_regular_expression is no regular expression.
C37_OrderPreservingFilter ==
    /\ pc = "exited" => RegexNew(discovery.regular_expression)[1] = "Err"
    /\ pc = "excluded" =>
         /\ discovery.filtered_files =
                NotMatching(discovery.paths, discovery.regex)
         /\ discovery.regular_expression = UNMATCHABLE_REGEX =>
                discovery.filtered_files = discovery.paths

-----------------------------------------------------------------------------
(* C38: the escape notation of the whitespace control bytes                *)

\* The bytes with a conventional escape, and that escape.
ControlBytes ==
    {CARRIAGE_RETURN, LINE_FEED, TAB, VERTICAL_TAB, FORM_FEED}

Escape(char) ==
    CASE char = CARRIAGE_RETURN -> "\\r"
      [] char = LINE_FEED -> "\\n"
      [] char = TAB -> "\\t"
      [] char = VERTICAL_TAB -> "\\v"
      [] char = FORM_FEED -> "\\f"

\* C38: char_to_str gives each whitespace control byte its own escape, CR
\* \r, LF \n, tab \t, VT \v and FF \f, and the text of a change that
\* carries such a byte shows the escape of that byte.
C38_EscapeNotation ==
    input_data[1] \in ControlBytes =>
      /\ pc = "char_rendered" => returned = <<Escape(input_data[1])>>
      /\ pc = "change_rendered" => returned[2] = Escape(input_data[1])

=============================================================================
